---------------------------- MODULE Spec2Model ----------------------------
(***************************************************************************)
(* gitmoni: the gocui dashboard of src/main.go with the status probe of    *)
(* src/unnamed/part_000 (checkGitStatus, checkRemoteStatus,                *)
(* fetchRemoteUpdates).                                                    *)
(*                                                                         *)
(* Threads of the program:                                                 *)
(*   - the UI thread (gocui's MainLoop): key handlers, the spinner's       *)
(*     g.Update callbacks and the render functions; it never takes a.mu;   *)
(*   - the batch goroutine fetchRemotesAsync and one worker per repository;*)
(*   - the spinnerTick goroutine.                                          *)
(* Text the probe parses is a sequence of one-character strings.           *)
(***************************************************************************)
EXTENDS Integers, Sequences, FiniteSets, TLC

(***************************************************************************)
(* Bounds of the model.                                                    *)
(***************************************************************************)
\* events from outside in one run: keys pressed and working trees edited
MaxEvents == 2
\* cap of the spinner's frame counter
MaxFrame == 2

\* the paths a configuration may list, in configuration order
AllRepos == <<"/r/a", "/r/b">>

Repo == {AllRepos[i] : i \in 1..Len(AllRepos)}

(***************************************************************************)
(* Strings as sequences of characters.                                     *)
(***************************************************************************)
IsSpace(c) == c \in {" ", "\n", "\t", "\r"}

RECURSIVE TrimLeft(_)
TrimLeft(s) ==
  IF s # <<>> /\ IsSpace(Head(s)) THEN TrimLeft(Tail(s)) ELSE s

RECURSIVE TrimRight(_)
TrimRight(s) ==
  IF s # <<>> /\ IsSpace(s[Len(s)])
    THEN TrimRight(SubSeq(s, 1, Len(s) - 1))
    ELSE s

\* strings.TrimSpace
TrimSpace(s) == TrimRight(TrimLeft(s))

\* the pieces of s between the separators, cur the piece begun before s
RECURSIVE SplitAcc(_, _)
SplitAcc(s, cur) ==
  IF s = <<>> THEN <<cur>>
  ELSE IF Head(s) = "\n" THEN <<cur>> \o SplitAcc(Tail(s), <<>>)
  ELSE SplitAcc(Tail(s), Append(cur, Head(s)))

\* strings.Split(s, "\n"); Split("") is <<"">>
SplitLines(s) == SplitAcc(s, <<>>)

\* strings.HasPrefix
HasPrefix(s, prefix) ==
  Len(s) >= Len(prefix) /\ SubSeq(s, 1, Len(prefix)) = prefix

\* strings.ReplaceAll(s, old, new) for a non-empty old: the occurrences are taken
\* from the left and do not overlap
RECURSIVE ReplaceAll(_, _, _)
ReplaceAll(s, old, new) ==
  IF s = <<>> THEN <<>>
  ELSE IF HasPrefix(s, old)
    THEN new \o ReplaceAll(SubSeq(s, Len(old) + 1, Len(s)), old, new)
  ELSE <<Head(s)>> \o ReplaceAll(Tail(s), old, new)

\* the fields of s, cur the field begun before s
RECURSIVE FieldsAcc(_, _)
FieldsAcc(s, cur) ==
  IF s = <<>> THEN (IF cur = <<>> THEN <<>> ELSE <<cur>>)
  ELSE IF IsSpace(Head(s))
    THEN (IF cur = <<>> THEN <<>> ELSE <<cur>>) \o FieldsAcc(Tail(s), <<>>)
  ELSE FieldsAcc(Tail(s), Append(cur, Head(s)))

\* strings.Fields: the maximal runs of characters that are not white space
Fields(s) == FieldsAcc(s, <<>>)

\* strings.HasPrefix(s, "\"") && strings.HasSuffix(s, "\"")
Quoted(s) == Len(s) >= 1 /\ s[1] = "\"" /\ s[Len(s)] = "\""

(***************************************************************************)
(* The status probe.  A repository's external state w is what the git     *)
(* commands would answer:                                                   *)
(*   isRepo     <path>/.git exists                                          *)
(*   statusErr  `git status --porcelain` fails                              *)
(*   statusOut  its standard output                                         *)
(*   remotes    "none" | "fail" | "some"   (`git remote`)                   *)
(*   branch     "fail" | "none" | "some"   (`git branch --show-current`)    *)
(*   upstream   "fail" | "some"            (`git rev-parse ...@{upstream}`) *)
(*   behindErr  `git rev-list --count` fails                                *)
(*   behind     commits of the remote-tracking ref missing locally          *)
(*   incoming   commits of the remote not yet fetched                       *)
(***************************************************************************)
\* the zero value of GitStatus: what reading a missing map key yields
ZeroStatus ==
  [Path |-> "", Files |-> <<>>, IsRepo |-> FALSE, HasError |-> FALSE,
   Error |-> "", HasRemote |-> FALSE, NeedsPull |-> FALSE, RemoteStatus |-> ""]

\* mutant of ParseLine: the quotes git put around the path are kept
ParseLineKeepsQuotes(line) ==
  IF line = <<>> \/ Len(line) < 3 THEN <<>>
  ELSE <<[Path   |-> TrimSpace(SubSeq(line, 3, Len(line))),
          Status |-> TrimSpace(SubSeq(line, 1, 2))]>>

\* one line of porcelain output: the entry it yields, <<>> when it is skipped
ParseLine(line) ==
  IF line = <<>> \/ Len(line) < 3 THEN <<>>
  ELSE LET status == TrimSpace(SubSeq(line, 1, 2))
           path   == TrimSpace(SubSeq(line, 3, Len(line)))
       IN  <<[Path   |-> IF Quoted(path) THEN SubSeq(path, 2, Len(path) - 1)
                         ELSE path,
              Status |-> status]>>

RECURSIVE ParseLines(_)
ParseLines(lines) ==
  IF lines = <<>> THEN <<>>
  ELSE ParseLine(Head(lines)) \o ParseLines(Tail(lines))

\* lines 51-70 on the output of `git status --porcelain`; each stage is
\* evaluated once and handed on as a value
ParseOutput(output) ==
  CHOOSE files \in {ParseLines(lines) :
                      lines \in {SplitLines(trimmed) :
                                   trimmed \in {TrimSpace(output)}}} : TRUE

\* mutant of BehindText: the count is left out of the text
BehindTextWithoutCount(n) == "commits behind"

\* fmt.Sprintf("%s commits behind", behindCount)
BehindText(n) == ToString(n) \o " commits behind"

checkRemoteStatus(status, w) ==
  IF w.remotes # "some" THEN [status EXCEPT !.HasRemote = FALSE]
  ELSE LET s == [status EXCEPT !.HasRemote = TRUE]
       IN  IF w.branch = "fail"
             THEN [s EXCEPT !.RemoteStatus = "Unable to get current branch"]
           ELSE IF w.branch = "none"
             THEN [s EXCEPT !.RemoteStatus = "No current branch"]
           ELSE IF w.upstream = "fail"
             THEN [s EXCEPT !.RemoteStatus = "No upstream branch"]
           ELSE IF w.behindErr
             THEN [s EXCEPT !.RemoteStatus = "Unable to check remote status"]
           ELSE IF w.behind # 0
             THEN [s EXCEPT !.NeedsPull = TRUE,
                            !.RemoteStatus = BehindText(w.behind)]
           ELSE [s EXCEPT !.NeedsPull = FALSE, !.RemoteStatus = "Up to date"]

isGitRepository(w) == w.isRepo

\* mutant of checkGitStatus: the remote is checked before the error returns
checkGitStatusRemoteFirst(repoPath, w) ==
  LET result == checkRemoteStatus([ZeroStatus EXCEPT !.Path = repoPath], w)
  IN  IF ~isGitRepository(w)
        THEN [result EXCEPT !.HasError = TRUE, !.Error = "Not a git repository"]
      ELSE IF w.statusErr
        THEN [result EXCEPT !.IsRepo = TRUE, !.HasError = TRUE,
                            !.Error = "exit status 128"]
      ELSE [result EXCEPT !.IsRepo = TRUE, !.Files = ParseOutput(w.statusOut)]

checkGitStatus(repoPath, w) ==
  LET result == [ZeroStatus EXCEPT !.Path = repoPath]
  IN  IF ~isGitRepository(w)
        THEN [result EXCEPT !.HasError = TRUE, !.Error = "Not a git repository"]
      ELSE IF w.statusErr
        THEN [result EXCEPT !.IsRepo = TRUE, !.HasError = TRUE,
                            !.Error = "exit status 128"]
      ELSE checkRemoteStatus(
             [result EXCEPT !.IsRepo = TRUE,
                            !.Files = ParseOutput(w.statusOut)],
             w)

\* checkGitStatus takes one of its two error returns
ProbeFails(w) == ~isGitRepository(w) \/ w.statusErr

\* git fetch --quiet: a successful fetch moves the remote-tracking ref
fetchRemoteUpdates(w, ok) ==
  IF ok /\ w.isRepo /\ w.remotes = "some"
    THEN [w EXCEPT !.behind = w.behind + w.incoming, !.incoming = 0]
    ELSE w


(***************************************************************************)
(* External states the dashboard is run against.                           *)
(***************************************************************************)
WBase ==
  [isRepo |-> TRUE, statusErr |-> FALSE, statusOut |-> <<>>,
   remotes |-> "some", branch |-> "some", upstream |-> "some",
   behindErr |-> FALSE, behind |-> 0, incoming |-> 0]

\* a clean tree whose remote holds one commit that has not been fetched
WClean == [WBase EXCEPT !.incoming = 1]

\* " M a\n?? b\n": one modified and one untracked file, no remote
WDirty ==
  [WBase EXCEPT !.statusOut = <<" ", "M", " ", "a", "\n", "?", "?", " ", "b", "\n">>,
                !.remotes = "none"]

\* the path is not under version control
WNotRepo == [WBase EXCEPT !.isRepo = FALSE, !.remotes = "none"]

\* `git status` fails
WStatusFail == [WBase EXCEPT !.statusErr = TRUE]

\* the external states a run may start from, per configured path
StartWorlds(r) ==
  IF r = AllRepos[1] THEN {WClean, WNotRepo} ELSE {WDirty, WStatusFail}

\* an edit of the working tree from outside: a clean tree gets the two changes
\* of WDirty, a changed tree is cleaned
Edited(w) ==
  [w EXCEPT !.statusOut = IF w.statusOut = <<>> THEN WDirty.statusOut ELSE <<>>]

(***************************************************************************)
(* The command main runs once MainLoop has returned (lines 834-857).       *)
(***************************************************************************)
\* the characters of a repository path
PathChars(p) ==
  CASE p = "/r/a" -> <<"/", "r", "/", "a">>
    [] p = "/r/b" -> <<"/", "r", "/", "b">>
    [] p = "/r c" -> <<"/", "r", " ", "c">>

\* "$REPO"
Placeholder == <<"$", "R", "E", "P", "O">>

\* mutant of Command: the placeholder is left as it is
CommandUnsubstituted(template, path) == Fields(template)

\* lines 838-841: strings.Fields(strings.ReplaceAll(commandTemplate, "$REPO",
\* app.lazyGitRepo)); parts[0] is the executable, parts[1:] its arguments
Command(template, path) == Fields(ReplaceAll(template, Placeholder, path))

\* the templates the dashboard is run with: "" and "g -p $REPO"
Templates == {<<>>, <<"g", " ", "-", "p", " ">> \o Placeholder}

(***************************************************************************)
(* The configuration (src/unnamed/part_003) and the command-line handlers  *)
(* of main.go.  Paths are sequences of characters.                         *)
(***************************************************************************)
\* the working directory of a command-line invocation: "/r"
Cwd == <<"/", "r">>

\* "/r/a" and "/r/b": git repositories; "a" and "/r/a/" name the first too
PathA == <<"/", "r", "/", "a">>

PathARelative == <<"a">>

PathASlash == <<"/", "r", "/", "a", "/">>

PathB == <<"/", "r", "/", "b">>

\* "/r/n": a directory without .git
PathN == <<"/", "r", "/", "n">>

\* "/r/x": no such directory
PathX == <<"/", "r", "/", "x">>

\* what os.Stat finds at an absolute path: "git" (a directory with .git),
\* "dir" (a directory without) or "missing"
OnDisk(absPath) ==
  IF absPath \in {PathA, PathB} THEN "git"
  ELSE IF absPath = PathN THEN "dir"
  ELSE "missing"

\* the elements of a path between its separators, cur the one begun before s
RECURSIVE SplitPath(_, _)
SplitPath(s, cur) ==
  IF s = <<>> THEN <<cur>>
  ELSE IF Head(s) = "/" THEN <<cur>> \o SplitPath(Tail(s), <<>>)
  ELSE SplitPath(Tail(s), Append(cur, Head(s)))

\* filepath.Clean on the elements of a rooted path: empty elements and "." are
\* dropped, ".." drops the element before it
RECURSIVE CleanParts(_, _)
CleanParts(parts, kept) ==
  IF parts = <<>> THEN kept
  ELSE IF Head(parts) \in {<<>>, <<".">>}
    THEN CleanParts(Tail(parts), kept)
  ELSE IF Head(parts) = <<".", ".">>
    THEN CleanParts(Tail(parts),
                    IF kept = <<>> THEN <<>> ELSE SubSeq(kept, 1, Len(kept) - 1))
  ELSE CleanParts(Tail(parts), Append(kept, Head(parts)))

RECURSIVE JoinPath(_)
JoinPath(parts) ==
  IF parts = <<>> THEN <<>>
  ELSE <<"/">> \o Head(parts) \o JoinPath(Tail(parts))

\* filepath.Abs: a relative path is joined to the working directory, and the
\* result is cleaned
Abs(path) ==
  LET full  == IF path # <<>> /\ Head(path) = "/"
                 THEN path ELSE Cwd \o <<"/">> \o path
      parts == CleanParts(SplitPath(full, <<>>), <<>>)
  IN  IF parts = <<>> THEN <<"/">> ELSE JoinPath(parts)

\* "lazygit", the default of loadConfig
DefaultCommand == <<"l", "a", "z", "y", "g", "i", "t">>

\* the Config loadConfig starts from
DefaultConfig == [Repositories |-> <<>>, EnterCommandBinary |-> DefaultCommand]

\* A configuration file on disk:
\*   absent      no such file
\*   unreadable  it exists and can be neither read nor written (a directory of
\*               that name, a file without permissions)
\*   syntax      it is not JSON
\*   type        it is JSON with "repositories" a list of strings and
\*               "enter_command_binary" of another type than string
\*   ok          it is JSON that fits Config; hasCommand: the key
\*               "enter_command_binary" is present
FileOf(kind, repositories, hasCommand, command) ==
  [kind |-> kind, Repositories |-> repositories, hasCommand |-> hasCommand,
   EnterCommandBinary |-> command]

Absent == FileOf("absent", <<>>, FALSE, <<>>)

Unreadable == FileOf("unreadable", <<>>, FALSE, <<>>)

SyntaxError == FileOf("syntax", <<>>, FALSE, <<>>)

\* the files a run may find at either place
StartFiles ==
  {Absent, Unreadable, SyntaxError,
   FileOf("type", <<PathA>>, FALSE, <<>>),
   FileOf("ok", <<>>, TRUE, <<"g">>),
   FileOf("ok", <<PathA>>, FALSE, <<>>),
   FileOf("ok", <<PathX, PathASlash>>, TRUE, <<"g">>)}

\* loadConfig, lines 26-30, for one of configPaths: os.ReadFile, then
\* json.Unmarshal(data, config), which on a value of the wrong type skips that
\* field, decodes the others and returns an error
ReadInto(config, f) ==
  IF f.kind = "ok"
    THEN [ok |-> TRUE,
          config |-> [Repositories |-> f.Repositories,
                      EnterCommandBinary |->
                        IF f.hasCommand THEN f.EnterCommandBinary
                        ELSE config.EnterCommandBinary]]
  ELSE IF f.kind = "type"
    THEN [ok |-> FALSE,
          config |-> [config EXCEPT !.Repositories = f.Repositories]]
  ELSE [ok |-> FALSE, config |-> config]

\* files: [local |-> ./.gitmoni.json, home |-> $HOME/.gitmoni.json]
loadConfig(fs) ==
  LET atLocal == ReadInto(DefaultConfig, fs.local)
  IN  IF atLocal.ok THEN atLocal.config
      ELSE ReadInto(atLocal.config, fs.home).config

\* saveConfig: the file written is ./.gitmoni.json when os.Stat finds it, the
\* one under $HOME otherwise; ok: os.WriteFile returned no error
saveConfig(config, fs) ==
  LET target == IF fs.local.kind # "absent" THEN "local" ELSE "home"
  IN  IF fs[target].kind = "unreadable"
        THEN [ok |-> FALSE, files |-> fs]
        ELSE [ok |-> TRUE,
              files |-> [fs EXCEPT ![target] =
                           FileOf("ok", config.Repositories, TRUE,
                                  config.EnterCommandBinary)]]

\* the entry of the list is the path, compared as absolute paths
SamePath(repo, absPath) == Abs(repo) = absPath

\* mutant of addRepositoryWithPath: the entries are compared as they are
\* written, as addRepository does
addRepositoryAsWritten(config, path) ==
  IF \E i \in 1..Len(config.Repositories) : config.Repositories[i] = Abs(path)
    THEN [added |-> FALSE, config |-> config]
    ELSE [added |-> TRUE,
          config |-> [config EXCEPT !.Repositories = Append(@, Abs(path))]]

addRepositoryWithPath(config, path) ==
  IF \E i \in 1..Len(config.Repositories) :
       SamePath(config.Repositories[i], Abs(path))
    THEN [added |-> FALSE, config |-> config]
    ELSE [added |-> TRUE,
          config |-> [config EXCEPT !.Repositories = Append(@, Abs(path))]]

\* the list without its element at position i
RemoveAt(list, i) == SubSeq(list, 1, i - 1) \o SubSeq(list, i + 1, Len(list))

\* mutant of removeRepository: the last entry is moved into the place of the
\* one removed
removeRepositoryMovesLast(config, path) ==
  LET list == config.Repositories
      hits == {i \in 1..Len(list) : SamePath(list[i], Abs(path))}
      i    == CHOOSE i \in hits : \A j \in hits : i <= j
  IN  IF hits = {} THEN [removed |-> FALSE, config |-> config]
      ELSE [removed |-> TRUE,
            config |-> [config EXCEPT !.Repositories =
                          SubSeq([list EXCEPT ![i] = list[Len(list)]],
                                 1, Len(list) - 1)]]

removeRepository(config, path) ==
  LET hits == {i \in 1..Len(config.Repositories) :
                 SamePath(config.Repositories[i], Abs(path))}
  IN  IF hits = {} THEN [removed |-> FALSE, config |-> config]
      ELSE [removed |-> TRUE,
            config |-> [config EXCEPT !.Repositories =
                          RemoveAt(@, CHOOSE i \in hits :
                                        \A j \in hits : i <= j)]]

\* what a handler leaves behind: the files, what it printed, whether it called
\* saveConfig, the Config in memory, and the exit code main ends with (1 when
\* the handler returned an error)
Outcome(fs, exit, out, saved, config) ==
  [files |-> fs, exit |-> exit, out |-> out, saved |-> saved, config |-> config]

\* mutant of addRepositoryFromCommandLine: the path is added without looking at
\* the disk
addRepositoryUnchecked(fs, path) ==
  LET config == loadConfig(fs)
      added  == addRepositoryWithPath(config, Abs(path))
      saved  == saveConfig(added.config, fs)
  IN  IF ~added.added
        THEN Outcome(fs, 0, "Repository already exists", FALSE, config)
      ELSE IF ~saved.ok
        THEN Outcome(fs, 1, "failed to save config", TRUE, added.config)
      ELSE Outcome(saved.files, 0, "Added repository", TRUE, added.config)

addRepositoryFromCommandLine(fs, path) ==
  LET config == loadConfig(fs)
      added  == addRepositoryWithPath(config, Abs(path))
      saved  == saveConfig(added.config, fs)
  IN  IF OnDisk(Abs(path)) = "missing"
        THEN Outcome(fs, 1, "directory does not exist", FALSE, config)
      ELSE IF OnDisk(Abs(path)) # "git"
        THEN Outcome(fs, 1, "not a git repository", FALSE, config)
      ELSE IF ~added.added
        THEN Outcome(fs, 0, "Repository already exists", FALSE, config)
      ELSE IF ~saved.ok
        THEN Outcome(fs, 1, "failed to save config", TRUE, added.config)
      ELSE Outcome(saved.files, 0, "Added repository", TRUE, added.config)

listRepositoriesFromCommandLine(fs) ==
  LET config == loadConfig(fs)
  IN  Outcome(fs, 0,
              IF Len(config.Repositories) = 0
                THEN "No repositories configured"
                ELSE "Configured repositories",
              FALSE, config)

deleteRepositoryFromCommandLine(fs, path) ==
  LET config  == loadConfig(fs)
      removed == removeRepository(config, Abs(path))
      saved   == saveConfig(removed.config, fs)
  IN  IF ~removed.removed
        THEN Outcome(fs, 0, "Repository not found", FALSE, config)
      ELSE IF ~saved.ok
        THEN Outcome(fs, 1, "failed to save config", TRUE, removed.config)
      ELSE Outcome(saved.files, 0, "Removed repository", TRUE, removed.config)

\* no configuration file exists
NoFiles == [local |-> Absent, home |-> Absent]

\* no command-line invocation has been made
NoCli ==
  [runs |-> 0, flag |-> "", arg |-> <<>>, exit |-> 0, out |-> "",
   saved |-> FALSE, loaded |-> DefaultConfig, config |-> DefaultConfig]

(***************************************************************************)
(* State.                                                                  *)
(***************************************************************************)
VARIABLES
  repos,          \* config.Repositories
  world,          \* the external state of every path
  events,         \* keys pressed and outside edits so far
  gitStatuses,    \* a.gitStatuses: a map, its domain the keys present
  fetchingRepos,  \* a.fetchingRepos: the keys present (all map to true)
  isFetching,     \* a.isFetching
  spinnerFrame,   \* a.spinnerFrame
  mu,             \* a.mu: "free" or its holder
  bpc, bi,        \* the batch goroutine: position, index of the marking loop
  wpc, wres,      \* the workers: position, the probe's result
  pending,        \* g.Update callbacks queued for the UI thread
  ui,             \* the UI thread: position and locals
  selectedRepo, selectedFile, currentView, focused,
  launchLazyGit, lazyGitRepo,
  commandTemplate, \* main's local of line 835: config.EnterCommandBinary as read
                  \* once MainLoop has returned
  cmd,            \* the argument vector of the exec.Command main runs; <<>>: none
  files,          \* the configuration files on disk
  cli,            \* the command-line invocations: their count and the last one
  running,        \* "loop" | "external" | "ended"
  crashed,        \* the Go runtime aborted the process
  repoView, fileView, diffView, helpView, \* the views' buffers
  order,          \* history: the workers of the running batch that have
                  \* completed, in the order of their completion
  late            \* history: spinnerFrame increments since the last flag of the
                  \* running batch was cleared

vars ==
  <<repos, world, events, gitStatuses, fetchingRepos, isFetching, spinnerFrame,
    mu, bpc, bi, wpc, wres, pending, ui, selectedRepo, selectedFile,
    currentView, focused, launchLazyGit, lazyGitRepo, commandTemplate, cmd, files, cli, running, crashed,
    repoView, fileView, diffView, helpView, order, late>>

progVars ==
  <<gitStatuses, fetchingRepos, isFetching, spinnerFrame, mu, bpc, bi, wpc, wres,
    pending, ui, selectedRepo, selectedFile, currentView, focused,
    launchLazyGit, lazyGitRepo, commandTemplate, cmd, files, cli, running, crashed, repoView, fileView, diffView,
    helpView, order, late>>

Configured == {repos[i] : i \in 1..Len(repos)}

\* a map read: the zero value for a missing key
Get(m, k) == IF k \in DOMAIN m THEN m[k] ELSE ZeroStatus

\* mutant of Put: the map is replaced by one that holds the written key alone
PutAlone(m, k, v) == [x \in {k} |-> v]

\* a map write
Put(m, k, v) == [x \in DOMAIN m \cup {k} |-> IF x = k THEN v ELSE m[x]]

\* the process and its goroutines exist
Alive == running # "ended" /\ ~crashed

\* the render loop runs
Looping == running = "loop" /\ ~crashed

UIIdle == [pc |-> "idle", h |-> "", i |-> 0, st |-> ZeroStatus]

\* a recheck that adds the files it finds to those of the record it replaces
AppendingRecheck(old, new) ==
  IF new.HasError THEN new ELSE [new EXCEPT !.Files = old.Files \o new.Files]

\* mutant of updateGitStatuses: every recheck appends to the record it finds
RECURSIVE updateGitStatusesAppending(_, _, _)
updateGitStatusesAppending(m, rs, w) ==
  IF rs = <<>> THEN m
  ELSE updateGitStatusesAppending(
         Put(m, Head(rs),
             AppendingRecheck(Get(m, Head(rs)),
                              checkGitStatus(Head(rs), w[Head(rs)]))),
         Tail(rs), w)

\* updateGitStatuses run to its end: a.gitStatuses[repo] = checkGitStatus(repo)
\* for every configured repository, in the order of the configuration
RECURSIVE updateGitStatuses(_, _, _)
updateGitStatuses(m, rs, w) ==
  IF rs = <<>> THEN m
  ELSE updateGitStatuses(
         Put(m, Head(rs), checkGitStatus(Head(rs), w[Head(rs)])), Tail(rs), w)

\* updateGitStatuses, as NewApp runs it before any goroutine exists
InitialStatuses(rs, w) ==
  [r \in {rs[i] : i \in 1..Len(rs)} |-> checkGitStatus(r, w[r])]

\* the process has ended: its goroutines and its memory are gone
ProcessGone ==
  /\ gitStatuses' = <<>>
  /\ fetchingRepos' = {}
  /\ isFetching' = FALSE
  /\ spinnerFrame' = 0
  /\ mu' = "free"
  /\ bpc' = "none"
  /\ bi' = 0
  /\ wpc' = [r \in Repo |-> "none"]
  /\ wres' = [r \in Repo |-> ZeroStatus]
  /\ pending' = 0
  /\ ui' = [UIIdle EXCEPT !.pc = "exited"]
  /\ selectedRepo' = 0
  /\ selectedFile' = 0
  /\ currentView' = "none"
  /\ focused' = "focusRepo"
  /\ repoView' = <<>>
  /\ fileView' = <<>>
  /\ diffView' = <<>>
  /\ helpView' = <<>>
  /\ order' = <<>>
  /\ late' = 0

\* no dashboard exists: before NewApp, in a command-line invocation, and once
\* the process has ended
NoDashboard ==
  /\ events = 0
  /\ gitStatuses = <<>>
  /\ fetchingRepos = {}
  /\ isFetching = FALSE
  /\ spinnerFrame = 0
  /\ mu = "free"
  /\ bpc = "none"
  /\ bi = 0
  /\ wpc = [r \in Repo |-> "none"]
  /\ wres = [r \in Repo |-> ZeroStatus]
  /\ pending = 0
  /\ ui = [UIIdle EXCEPT !.pc = "exited"]
  /\ selectedRepo = 0
  /\ selectedFile = 0
  /\ currentView = "none"
  /\ focused = "focusRepo"
  /\ crashed = FALSE
  /\ repoView = <<>>
  /\ fileView = <<>>
  /\ diffView = <<>>
  /\ helpView = <<>>
  /\ order = <<>>
  /\ late = 0

Init ==
  /\ repos \in {SubSeq(AllRepos, 1, n) : n \in 0..Len(AllRepos)}
  /\ world \in {w \in [Repo -> {WClean, WDirty, WNotRepo, WStatusFail}] :
                  \A r \in Repo :
                    IF \E i \in 1..Len(repos) : repos[i] = r
                      THEN w[r] \in StartWorlds(r)
                      ELSE w[r] = WNotRepo}
  /\ events = 0
  /\ gitStatuses = InitialStatuses(repos, world)
  /\ fetchingRepos = {}
  /\ isFetching = TRUE
  /\ spinnerFrame = 0
  /\ mu = "free"
  /\ bpc = IF Len(repos) > 0 THEN "lock" ELSE "none"
  /\ bi = 0
  /\ wpc = [r \in Repo |-> "none"]
  /\ wres = [r \in Repo |-> ZeroStatus]
  /\ pending = 0
  /\ ui = [UIIdle EXCEPT !.pc = "start"]
  /\ selectedRepo = 0
  /\ selectedFile = 0
  /\ currentView = "none"
  /\ focused = "focusRepo"
  /\ launchLazyGit = FALSE
  /\ lazyGitRepo = ""
  /\ commandTemplate = <<>>
  /\ cmd = <<>>
  /\ files = NoFiles
  /\ cli = NoCli
  /\ running = "loop"
  /\ crashed = FALSE
  /\ repoView = <<>>
  /\ fileView = <<>>
  /\ diffView = <<>>
  /\ helpView = <<>>
  /\ order = <<>>
  /\ late = 0

(***************************************************************************)
(* The batch goroutine: fetchRemotesAsync.                                 *)
(***************************************************************************)
\* a.mu.Lock() of the marking loop
BatchLock ==
  /\ Alive /\ bpc = "lock" /\ mu = "free"
  /\ mu' = "batch" /\ bpc' = "mark" /\ bi' = 1
  /\ UNCHANGED <<repos, world, events, gitStatuses, fetchingRepos, isFetching,
                 spinnerFrame, wpc, wres, pending, ui, selectedRepo,
                 selectedFile, currentView, focused, launchLazyGit, lazyGitRepo, commandTemplate, cmd, files, cli,
                 running, crashed, repoView, fileView, diffView, helpView, order, late>>

\* a.fetchingRepos[repo] = true, one repository per step
BatchMark ==
  /\ Alive /\ bpc = "mark" /\ bi <= Len(repos)
  /\ fetchingRepos' = fetchingRepos \cup {repos[bi]}
  /\ bi' = bi + 1
  /\ UNCHANGED <<repos, world, events, gitStatuses, isFetching, spinnerFrame, mu,
                 bpc, wpc, wres, pending, ui, selectedRepo,
                 selectedFile, currentView, focused, launchLazyGit, lazyGitRepo, commandTemplate, cmd, files, cli,
                 running, crashed, repoView, fileView, diffView, helpView, order, late>>

\* mutant of BatchSpawn: a worker is started for the first repository only
BatchSpawnFirstOnly ==
  /\ Alive /\ bpc = "mark" /\ bi > Len(repos)
  /\ mu' = "free" /\ bpc' = "wait" /\ bi' = 0
  /\ wpc' = [r \in Repo |-> IF r = repos[1] THEN "fetch"
                             ELSE IF r \in Configured THEN "done" ELSE wpc[r]]
  /\ UNCHANGED <<repos, world, events, gitStatuses, fetchingRepos, isFetching,
                 spinnerFrame, wres, pending, ui, selectedRepo,
                 selectedFile, currentView, focused, launchLazyGit, lazyGitRepo,
                 commandTemplate, cmd, files, cli, running, crashed, repoView,
                 fileView, diffView, helpView, order, late>>

\* a.mu.Unlock(), then wg.Add(1) and `go func(r)` for every repository
BatchSpawn ==
  /\ Alive /\ bpc = "mark" /\ bi > Len(repos)
  /\ mu' = "free" /\ bpc' = "wait" /\ bi' = 0
  /\ wpc' = [r \in Repo |-> IF r \in Configured THEN "fetch" ELSE wpc[r]]
  /\ UNCHANGED <<repos, world, events, gitStatuses, fetchingRepos, isFetching,
                 spinnerFrame, wres, pending, ui, selectedRepo,
                 selectedFile, currentView, focused, launchLazyGit, lazyGitRepo, commandTemplate, cmd, files, cli,
                 running, crashed, repoView, fileView, diffView, helpView, order, late>>

\* mutant of BatchFinish: the batch goroutine ends without clearing isFetching
BatchFinishKeepsFetching ==
  /\ Alive /\ bpc = "wait" /\ mu = "free"
  /\ \A r \in Configured : wpc[r] = "done"
  /\ bpc' = "none"
  /\ wpc' = [r \in Repo |-> "none"]
  /\ order' = <<>> /\ late' = 0
  /\ UNCHANGED <<repos, world, events, gitStatuses, fetchingRepos, isFetching,
                 spinnerFrame, mu, bi, wres, pending, ui, selectedRepo,
                 selectedFile, currentView, focused, launchLazyGit, lazyGitRepo, commandTemplate, cmd, files, cli,
                 running, crashed, repoView, fileView, diffView, helpView>>

\* wg.Wait() returns; a.mu.Lock(); a.isFetching = false; a.mu.Unlock()
BatchFinish ==
  /\ Alive /\ bpc = "wait" /\ mu = "free"
  /\ \A r \in Configured : wpc[r] = "done"
  /\ isFetching' = FALSE /\ bpc' = "none"
  /\ wpc' = [r \in Repo |-> "none"]
  /\ order' = <<>> /\ late' = 0
  /\ UNCHANGED <<repos, world, events, gitStatuses, fetchingRepos, spinnerFrame,
                 mu, bi, wres, pending, ui, selectedRepo, selectedFile,
                 currentView, focused, launchLazyGit, lazyGitRepo, commandTemplate, cmd, files, cli, running,
                 crashed, repoView, fileView, diffView, helpView>>

(***************************************************************************)
(* A worker: the goroutine fetchRemotesAsync starts for repository r.      *)
(***************************************************************************)
\* mutant of WorkerFetchResult: a worker whose fetch fails returns at once; it
\* neither probes nor clears its flag
WorkerFetchStopsOnError(r, ok) ==
  /\ Alive /\ wpc[r] = "fetch"
  /\ world' = [world EXCEPT ![r] = fetchRemoteUpdates(world[r], ok)]
  /\ wpc' = [wpc EXCEPT ![r] = IF ok THEN "lock" ELSE "done"]
  /\ order' = IF ok THEN order ELSE Append(order, r)
  /\ UNCHANGED <<repos, events, gitStatuses, fetchingRepos, isFetching,
                 spinnerFrame, mu, bpc, bi, wres, pending, ui, selectedRepo,
                 selectedFile, currentView, focused, launchLazyGit, lazyGitRepo,
                 commandTemplate, cmd, files, cli, running, crashed, repoView,
                 fileView, diffView, helpView, late>>

\* line 278: fetchRemoteUpdates(r) returns, without an error (ok) or with one;
\* the error is not assigned to anything
WorkerFetchResult(r, ok) ==
  /\ Alive /\ wpc[r] = "fetch"
  /\ world' = [world EXCEPT ![r] = fetchRemoteUpdates(world[r], ok)]
  /\ wpc' = [wpc EXCEPT ![r] = "lock"]
  /\ UNCHANGED <<repos, events, gitStatuses, fetchingRepos, isFetching,
                 spinnerFrame, mu, bpc, bi, wres, pending, ui, selectedRepo,
                 selectedFile, currentView, focused, launchLazyGit, lazyGitRepo,
                 commandTemplate, cmd, files, cli, running, crashed, repoView,
                 fileView, diffView, helpView, order, late>>

\* fetchRemoteUpdates(r) returns, with or without an error
WorkerFetch(r) == \E ok \in BOOLEAN : WorkerFetchResult(r, ok)

\* a.mu.Lock()
WorkerLock(r) ==
  /\ Alive /\ wpc[r] = "lock" /\ mu = "free"
  /\ mu' = r
  /\ wpc' = [wpc EXCEPT ![r] = "probe"]
  /\ UNCHANGED <<repos, world, events, gitStatuses, fetchingRepos, isFetching,
                 spinnerFrame, bpc, bi, wres, pending, ui, selectedRepo,
                 selectedFile, currentView, focused, launchLazyGit, lazyGitRepo, commandTemplate, cmd, files, cli,
                 running, crashed, repoView, fileView, diffView, helpView, order, late>>

\* mutant of WorkerProbe: a worker whose probe fails returns at once, unlocking
\* the mutex, and neither writes its record nor clears its flag
WorkerProbeReturnsOnError(r) ==
  /\ Alive /\ wpc[r] = "probe"
  /\ IF ProbeFails(world[r])
       THEN /\ wpc' = [wpc EXCEPT ![r] = "done"]
            /\ mu' = "free"
            /\ order' = Append(order, r)
            /\ UNCHANGED wres
       ELSE /\ wres' = [wres EXCEPT ![r] = checkGitStatus(r, world[r])]
            /\ wpc' = [wpc EXCEPT ![r] = "store"]
            /\ UNCHANGED <<mu, order>>
  /\ UNCHANGED <<repos, world, events, gitStatuses, fetchingRepos, isFetching,
                 spinnerFrame, bpc, bi, pending, ui, selectedRepo,
                 selectedFile, currentView, focused, launchLazyGit, lazyGitRepo, commandTemplate, cmd, files, cli,
                 running, crashed, repoView, fileView, diffView, helpView, late>>

\* checkGitStatus(r) returns, the mutex held; the assignment of line 282 begins
WorkerProbe(r) ==
  /\ Alive /\ wpc[r] = "probe"
  /\ wres' = [wres EXCEPT ![r] = checkGitStatus(r, world[r])]
  /\ wpc' = [wpc EXCEPT ![r] = "store"]
  /\ UNCHANGED <<repos, world, events, gitStatuses, fetchingRepos, isFetching,
                 spinnerFrame, mu, bpc, bi, pending, ui, selectedRepo,
                 selectedFile, currentView, focused, launchLazyGit, lazyGitRepo, commandTemplate, cmd, files, cli,
                 running, crashed, repoView, fileView, diffView, helpView,
                 order, late>>

\* mutant of WorkerStore: the flag is cleared first, the record not yet written
WorkerStoreClearsFlag(r) ==
  /\ Alive /\ wpc[r] = "store"
  /\ fetchingRepos' = fetchingRepos \ {r}
  /\ wpc' = [wpc EXCEPT ![r] = "delete"]
  /\ UNCHANGED <<repos, world, events, gitStatuses, isFetching, spinnerFrame, mu,
                 bpc, bi, wres, pending, ui, selectedRepo, selectedFile,
                 currentView, focused, launchLazyGit, lazyGitRepo, commandTemplate, cmd, files, cli, running,
                 crashed, repoView, fileView, diffView, helpView, order, late>>

\* a.gitStatuses[r] = <the probe's result> is complete
WorkerStore(r) ==
  /\ Alive /\ wpc[r] = "store"
  /\ gitStatuses' = Put(gitStatuses, r, wres[r])
  /\ wpc' = [wpc EXCEPT ![r] = "delete"]
  /\ UNCHANGED <<repos, world, events, fetchingRepos, isFetching, spinnerFrame, mu,
                 bpc, bi, wres, pending, ui, selectedRepo, selectedFile,
                 currentView, focused, launchLazyGit, lazyGitRepo, commandTemplate, cmd, files, cli, running,
                 crashed, repoView, fileView, diffView, helpView, order, late>>

\* mutant of WorkerDelete: the record is deleted together with the flag
WorkerDeleteDropsRecord(r) ==
  /\ Alive /\ wpc[r] = "delete"
  /\ fetchingRepos' = fetchingRepos \ {r}
  /\ gitStatuses' = [k \in DOMAIN gitStatuses \ {r} |-> gitStatuses[k]]
  /\ mu' = "free"
  /\ wpc' = [wpc EXCEPT ![r] = "done"]
  /\ wres' = [wres EXCEPT ![r] = ZeroStatus]
  /\ order' = Append(order, r)
  /\ UNCHANGED <<repos, world, events, isFetching, spinnerFrame, bpc,
                 bi, pending, ui, selectedRepo, selectedFile, currentView, focused,
                 launchLazyGit, lazyGitRepo, commandTemplate, cmd, files, cli, running, crashed, repoView, fileView,
                 diffView, helpView, late>>

\* delete(a.fetchingRepos, r); a.mu.Unlock(); wg.Done()
WorkerDelete(r) ==
  /\ Alive /\ wpc[r] = "delete"
  /\ fetchingRepos' = fetchingRepos \ {r}
  /\ mu' = "free"
  /\ wpc' = [wpc EXCEPT ![r] = "done"]
  /\ wres' = [wres EXCEPT ![r] = ZeroStatus]
  /\ order' = Append(order, r)
  /\ UNCHANGED <<repos, world, events, gitStatuses, isFetching, spinnerFrame, bpc,
                 bi, pending, ui, selectedRepo, selectedFile, currentView, focused,
                 launchLazyGit, lazyGitRepo, commandTemplate, cmd, files, cli, running, crashed, repoView, fileView,
                 diffView, helpView, late>>

(***************************************************************************)
(* spinnerTick.                                                            *)
(***************************************************************************)
\* the test of line 734
Animating == isFetching \/ fetchingRepos # {}

\* the workers of the running batch have all cleared their flags
LastFlagCleared ==
  bpc = "wait" /\ \A r \in Configured : wpc[r] = "done"

\* one pass of the loop: sleep; lock; test; increment; unlock; g.Update(func),
\* which queues the callback for the UI thread without waiting for it
spinnerTick ==
  /\ Alive /\ mu = "free"
  /\ spinnerFrame < MaxFrame
  /\ IF Animating
       THEN /\ spinnerFrame' = spinnerFrame + 1
            /\ pending' = pending + 1
            /\ late' = IF LastFlagCleared THEN late + 1 ELSE late
       ELSE UNCHANGED <<spinnerFrame, pending, late>>
  /\ UNCHANGED <<repos, world, events, gitStatuses, fetchingRepos, isFetching, mu,
                 bpc, bi, wpc, wres, ui, selectedRepo, selectedFile,
                 currentView, focused, launchLazyGit, lazyGitRepo, commandTemplate, cmd, files, cli, running,
                 crashed, repoView, fileView, diffView, helpView, order>>

(***************************************************************************)
(* The world outside the program.                                          *)
(***************************************************************************)
\* somebody edits a working tree
WorldChange(r) ==
  /\ Alive /\ events < MaxEvents
  /\ r \in Configured /\ world[r].isRepo /\ ~world[r].statusErr
  /\ world' = [world EXCEPT ![r] = Edited(world[r])]
  /\ events' = events + 1
  /\ UNCHANGED <<repos>>
  /\ UNCHANGED progVars

(***************************************************************************)
(* The render functions.  They run on the UI thread and read a.gitStatuses,*)
(* a.fetchingRepos, a.isFetching and a.spinnerFrame without taking a.mu.   *)
(***************************************************************************)
\* the record a reader gets that copies a GitStatus while it is being replaced:
\* the fields of the local status from l, those of the remote comparison from m
Mix(l, m) ==
  [l EXCEPT !.HasRemote = m.HasRemote, !.NeedsPull = m.NeedsPull,
            !.RemoteStatus = m.RemoteStatus]

\* status := a.gitStatuses[r], unsynchronised: while r's worker is inside its
\* assignment the copy may hold any mix of the old and the new record
ReadStatus(r) ==
  IF wpc[r] = "store"
    THEN {Mix(l, m) : l \in {Get(gitStatuses, r), wres[r]},
                      m \in {Get(gitStatuses, r), wres[r]}}
    ELSE {Get(gitStatuses, r)}

getStatusDescription(status) ==
  IF status = <<"M">> THEN "Modified"
  ELSE IF status = <<"A">> THEN "Added"
  ELSE IF status = <<"D">> THEN "Deleted"
  ELSE IF status = <<"R">> THEN "Renamed"
  ELSE IF status = <<"C">> THEN "Copied"
  ELSE IF status = <<"U">> THEN "Updated but unmerged"
  ELSE IF status = <<"?", "?">> THEN "Untracked"
  ELSE "Unknown"

\* one line of updateRepoView
RepoRow(repo, status, fetching, selected) ==
  [name     |-> repo,
   icon     |-> IF status.HasError THEN "Error"
                ELSE IF Len(status.Files) = 0 THEN "Success" ELSE "Changed",
   pull     |-> status.HasRemote /\ status.NeedsPull,
   count    |-> IF ~status.HasError /\ Len(status.Files) > 0
                  THEN Len(status.Files) ELSE 0,
   updating |-> fetching,
   remote   |-> IF ~fetching /\ status.HasRemote /\ status.RemoteStatus # ""
                  THEN status.RemoteStatus ELSE "",
   selected |-> selected]

\* mutant of FileLines: a record with an error is rendered like a clean tree
FileLinesWithoutError(status) ==
  IF selectedRepo >= Len(repos) THEN <<>>
  ELSE IF Len(status.Files) = 0
    THEN <<[kind |-> "none", text |-> "No changes", path |-> <<>>,
            selected |-> FALSE]>>
  ELSE [i \in 1..Len(status.Files) |->
          [kind |-> "file", text |-> getStatusDescription(status.Files[i].Status),
           path |-> status.Files[i].Path, selected |-> (i - 1 = selectedFile)]]

\* updateFileView's buffer for the record it read
FileLines(status) ==
  IF selectedRepo >= Len(repos) THEN <<>>
  ELSE IF status.HasError
    THEN <<[kind |-> "error", text |-> status.Error, path |-> <<>>,
            selected |-> FALSE]>>
  ELSE IF Len(status.Files) = 0
    THEN <<[kind |-> "none", text |-> "No changes", path |-> <<>>,
            selected |-> FALSE]>>
  ELSE [i \in 1..Len(status.Files) |->
          [kind |-> "file", text |-> getStatusDescription(status.Files[i].Status),
           path |-> status.Files[i].Path, selected |-> (i - 1 = selectedFile)]]

\* updateDiffView's buffer: the file whose diff getFileDiff is asked for
DiffLines(status, selFile) ==
  IF selectedRepo >= Len(repos) THEN <<>>
  ELSE IF status.HasError \/ Len(status.Files) = 0 THEN <<>>
  ELSE IF selFile >= Len(status.Files) THEN <<>>
  ELSE <<[repo |-> status.Path, path |-> status.Files[selFile + 1].Path]>>

\* updateHelpView's buffer
HelpLines == [fetching |-> isFetching]

SelectedPath == repos[selectedRepo + 1]

\* the UI thread enters updateRepoView: v.Clear() and the loop's first pass
EnterRepoView(h) ==
  /\ repoView' = <<>>
  /\ ui' = [UIIdle EXCEPT !.pc = IF Len(repos) > 0 THEN "rv_st" ELSE "rest",
                          !.h = h, !.i = 1]

\* gocui.MainLoop's first flush: layout creates the views and fills them
UIStart ==
  /\ Looping /\ ui.pc = "start"
  /\ EnterRepoView("first")
  /\ UNCHANGED <<repos, world, events, gitStatuses, fetchingRepos, isFetching,
                 spinnerFrame, mu, bpc, bi, wpc, wres, pending, selectedRepo, selectedFile, currentView, focused, launchLazyGit,
                 lazyGitRepo, commandTemplate, cmd, files, cli, running, crashed, fileView, diffView, helpView, order, late>>

\* mutant of UIReadStatus: the render pass takes a.mu for its read
UIReadStatusLocked ==
  /\ Looping /\ ui.pc = "rv_st" /\ mu = "free"
  /\ ui' = [ui EXCEPT !.pc = "rv_fl", !.st = Get(gitStatuses, repos[ui.i])]
  /\ UNCHANGED <<repos, world, events, gitStatuses, fetchingRepos, isFetching,
                 spinnerFrame, mu, bpc, bi, wpc, wres, pending, selectedRepo,
                 selectedFile, currentView, focused, launchLazyGit, lazyGitRepo, commandTemplate, cmd, files, cli,
                 running, crashed, repoView, fileView, diffView, helpView, order,
                 late>>

\* updateRepoView, line 368: status := a.gitStatuses[repo]
UIReadStatus ==
  /\ Looping /\ ui.pc = "rv_st"
  /\ \E v \in ReadStatus(repos[ui.i]) :
       ui' = [ui EXCEPT !.pc = "rv_fl", !.st = v]
  /\ UNCHANGED <<repos, world, events, gitStatuses, fetchingRepos, isFetching,
                 spinnerFrame, mu, bpc, bi, wpc, wres, pending, selectedRepo, selectedFile, currentView, focused, launchLazyGit,
                 lazyGitRepo, commandTemplate, cmd, files, cli, running, crashed, repoView, fileView, diffView,
                 helpView, order, late>>

\* updateRepoView, lines 376-399: isFetching := a.fetchingRepos[repo], the line
UIReadFlag ==
  /\ Looping /\ ui.pc = "rv_fl"
  /\ LET repo == repos[ui.i]
         flag == repo \in fetchingRepos
     IN  repoView' = Append(repoView,
                       RepoRow(repo, ui.st, flag, ui.i - 1 = selectedRepo))
  /\ ui' = IF ui.i < Len(repos)
             THEN [ui EXCEPT !.pc = "rv_st", !.i = ui.i + 1, !.st = ZeroStatus]
             ELSE [ui EXCEPT !.pc = "rest", !.i = 0, !.st = ZeroStatus]
  /\ UNCHANGED <<repos, world, events, gitStatuses, fetchingRepos, isFetching,
                 spinnerFrame, mu, bpc, bi, wpc, wres, pending, selectedRepo, selectedFile, currentView, focused, launchLazyGit,
                 lazyGitRepo, commandTemplate, cmd, files, cli, running, crashed, fileView, diffView, helpView, order, late>>

\* updateFileView and updateDiffView: each reads a.gitStatuses[repo] anew
FileAndDiff(selFile) ==
  IF selectedRepo >= Len(repos)
    THEN fileView' = <<>> /\ diffView' = <<>>
    ELSE \E s1 \in ReadStatus(SelectedPath), s2 \in ReadStatus(SelectedPath) :
           /\ fileView' = FileLines(s1)
           /\ diffView' = DiffLines(s2, selFile)

\* mutant of UIRest: refresh starts a batch whatever a.isFetching holds
UIRestStartsAnyway ==
  /\ Looping /\ ui.pc = "rest"
  /\ IF ui.h = "tick"
       THEN UNCHANGED <<fileView, diffView>>
       ELSE FileAndDiff(selectedFile)
  /\ IF ui.h \in {"first", "tick"}
       THEN helpView' = HelpLines
       ELSE UNCHANGED helpView
  /\ currentView' = IF ui.h = "first" THEN "repos" ELSE currentView
  /\ IF ui.h = "refresh"
       THEN isFetching' = TRUE /\ bpc' = "lock"
       ELSE UNCHANGED <<isFetching, bpc>>
  /\ ui' = UIIdle
  /\ UNCHANGED <<repos, world, events, gitStatuses, fetchingRepos, spinnerFrame,
                 mu, bi, wpc, wres, pending, selectedRepo, selectedFile,
                 focused, launchLazyGit, lazyGitRepo, commandTemplate, cmd,
                 files, cli, running, crashed, repoView, order, late>>

\* what follows updateRepoView in the handler that called it
UIRest ==
  /\ Looping /\ ui.pc = "rest"
  /\ IF ui.h = "tick"
       THEN UNCHANGED <<fileView, diffView>>
       ELSE FileAndDiff(selectedFile)
  /\ IF ui.h \in {"first", "tick"}
       THEN helpView' = HelpLines
       ELSE UNCHANGED helpView
  \* layout, line 356: g.SetCurrentView("repos")
  /\ currentView' = IF ui.h = "first" THEN "repos" ELSE currentView
  \* refresh, lines 611-614
  /\ IF ui.h = "refresh" /\ ~isFetching
       THEN isFetching' = TRUE /\ bpc' = "lock"
       ELSE UNCHANGED <<isFetching, bpc>>
  /\ ui' = UIIdle
  /\ UNCHANGED <<repos, world, events, gitStatuses, fetchingRepos, spinnerFrame,
                 mu, bi, wpc, wres, pending, selectedRepo, selectedFile,
                 focused, launchLazyGit, lazyGitRepo, commandTemplate, cmd, files, cli, running, crashed, repoView, order, late>>

\* MainLoop: no further event is taken (consumeevents); flush runs layout, which
\* sets the current view to "repos" again (line 356).  When the current view is
\* "repos" already the flush changes nothing
UILayout ==
  /\ Looping /\ ui.pc = "idle" /\ currentView # "repos"
  /\ ui' = UIIdle
  /\ currentView' = "repos"
  /\ UNCHANGED <<repos, world, events, gitStatuses, fetchingRepos, isFetching,
                 spinnerFrame, mu, bpc, bi, wpc, wres, pending, selectedRepo, selectedFile, focused, launchLazyGit, lazyGitRepo, commandTemplate, cmd, files, cli,
                 running, crashed, repoView, fileView, diffView, helpView, order, late>>

(***************************************************************************)
(* Events of the UI thread.  MainLoop takes one event (blocking), takes    *)
(* those already queued (consumeevents), then flushes.                     *)
(***************************************************************************)
TakesEvents == Looping /\ ui.pc = "idle"

TakesKeys == TakesEvents /\ events < MaxEvents

\* 'q' and Ctrl+C: quit returns gocui.ErrQuit, MainLoop returns, and main
\* returns since launchLazyGit is false
KeyQuit ==
  /\ TakesKeys
  /\ events' = events + 1
  /\ running' = "ended"
  /\ ProcessGone
  /\ UNCHANGED <<repos, world, launchLazyGit, lazyGitRepo, commandTemplate, cmd, files, cli, crashed>>

\* nextView's choice of the view that follows the current one
NextViewName(current) ==
  IF current = "repos" THEN "files"
  ELSE IF current = "files" THEN "diff"
  ELSE "repos"

FocusOf(view) ==
  IF view = "repos" THEN "focusRepo"
  ELSE IF view = "files" THEN "focusFile"
  ELSE "focusDiff"

\* Tab: nextView
KeyTab ==
  /\ TakesKeys
  /\ events' = events + 1
  /\ currentView' = NextViewName(currentView)
  /\ focused' = FocusOf(NextViewName(currentView))
  /\ ui' = UIIdle
  /\ UNCHANGED <<repos, world, gitStatuses, fetchingRepos, isFetching,
                 spinnerFrame, mu, bpc, bi, wpc, wres, pending, selectedRepo,
                 selectedFile, launchLazyGit, lazyGitRepo, commandTemplate, cmd, files, cli, running, crashed,
                 repoView, fileView, diffView, helpView, order, late>>

\* the dashboard's memory as a handler leaves it that changes none of it
DashboardUnchanged ==
  UNCHANGED <<gitStatuses, fetchingRepos, isFetching, spinnerFrame, mu, bpc, bi,
              wpc, wres, pending, selectedRepo, selectedFile, currentView,
              focused, repoView, fileView, diffView, helpView, order, late>>

\* Enter in the repositories view: launchExternal returns ErrQuit, MainLoop
\* returns, and main builds the command from the template (lines 834-841);
\* with no field in it main returns, otherwise it runs the command
KeyEnter ==
  /\ TakesKeys /\ currentView = "repos"
  /\ IF selectedRepo >= Len(repos)
       THEN /\ ui' = UIIdle
            /\ DashboardUnchanged
            /\ UNCHANGED <<launchLazyGit, lazyGitRepo, commandTemplate, cmd,
                           running, events>>
       ELSE /\ events' = events + 1
            /\ launchLazyGit' = TRUE
            /\ lazyGitRepo' = SelectedPath
            /\ \E t \in Templates :
                 /\ commandTemplate' = t
                 /\ cmd' = Command(t, PathChars(SelectedPath))
                 /\ IF Command(t, PathChars(SelectedPath)) = <<>>
                      THEN running' = "ended" /\ ProcessGone
                      ELSE /\ running' = "external"
                           /\ ui' = [UIIdle EXCEPT !.pc = "exited"]
                           /\ DashboardUnchanged
  /\ UNCHANGED <<repos, world, crashed, files, cli>>

\* cmd.Run() of the launched command returns, and main with it
ExternalReturns ==
  /\ running = "external" /\ ~crashed
  /\ running' = "ended"
  /\ ProcessGone
  /\ UNCHANGED <<repos, world, events, launchLazyGit, lazyGitRepo, commandTemplate, cmd, files, cli, crashed>>

\* Up or 'k' (d = -1), Down or 'j' (d = 1) in the repositories view:
\* cursorUp, cursorDown
KeyCursor(d) ==
  /\ TakesKeys /\ currentView = "repos"
  /\ IF (d = -1 /\ selectedRepo > 0) \/ (d = 1 /\ selectedRepo < Len(repos) - 1)
       THEN /\ events' = events + 1
            /\ selectedRepo' = selectedRepo + d
            /\ selectedFile' = 0
            /\ EnterRepoView("cursor")
       ELSE /\ ui' = UIIdle
            /\ UNCHANGED <<selectedRepo, selectedFile, repoView, events>>
  /\ UNCHANGED <<repos, world, gitStatuses, fetchingRepos, isFetching,
                 spinnerFrame, mu, bpc, bi, wpc, wres, pending, currentView,
                 focused, launchLazyGit, lazyGitRepo, commandTemplate, cmd, files, cli, running, crashed, fileView,
                 diffView, helpView, order, late>>

\* Up or 'k' in the files view: fileCursorUp
KeyFileCursorUp ==
  /\ TakesKeys /\ currentView = "files"
  /\ IF selectedRepo < Len(repos) /\ selectedFile > 0
       THEN /\ events' = events + 1
            /\ selectedFile' = selectedFile - 1
            /\ \E s1 \in ReadStatus(SelectedPath), s2 \in ReadStatus(SelectedPath) :
                 /\ fileView' = [i \in DOMAIN FileLines(s1) |->
                                   [FileLines(s1)[i] EXCEPT
                                      !.selected = (FileLines(s1)[i].kind = "file"
                                                    /\ i - 1 = selectedFile - 1)]]
                 /\ diffView' = DiffLines(s2, selectedFile - 1)
       ELSE UNCHANGED <<selectedFile, fileView, diffView, events>>
  /\ ui' = UIIdle
  /\ UNCHANGED <<repos, world, gitStatuses, fetchingRepos, isFetching,
                 spinnerFrame, mu, bpc, bi, wpc, wres, pending, selectedRepo,
                 currentView, focused, launchLazyGit, lazyGitRepo, commandTemplate, cmd, files, cli, running,
                 crashed, repoView, helpView, order, late>>

\* Down or 'j' in the files view: fileCursorDown
KeyFileCursorDown ==
  /\ TakesKeys /\ currentView = "files"
  /\ IF selectedRepo >= Len(repos)
       THEN UNCHANGED <<selectedFile, fileView, diffView, events>>
       ELSE \E s0 \in ReadStatus(SelectedPath) :
              IF selectedFile < Len(s0.Files) - 1
                THEN /\ events' = events + 1
                     /\ selectedFile' = selectedFile + 1
                     /\ \E s1 \in ReadStatus(SelectedPath),
                           s2 \in ReadStatus(SelectedPath) :
                          /\ fileView' = [i \in DOMAIN FileLines(s1) |->
                                            [FileLines(s1)[i] EXCEPT
                                               !.selected =
                                                  (FileLines(s1)[i].kind = "file"
                                                   /\ i - 1 = selectedFile + 1)]]
                          /\ diffView' = DiffLines(s2, selectedFile + 1)
                ELSE UNCHANGED <<selectedFile, fileView, diffView, events>>
  /\ ui' = UIIdle
  /\ UNCHANGED <<repos, world, gitStatuses, fetchingRepos, isFetching,
                 spinnerFrame, mu, bpc, bi, wpc, wres, pending, selectedRepo,
                 currentView, focused, launchLazyGit, lazyGitRepo, commandTemplate, cmd, files, cli, running,
                 crashed, repoView, helpView, order, late>>

\* 'r': refresh enters updateGitStatuses
KeyRefresh ==
  /\ TakesKeys
  /\ events' = events + 1
  /\ IF Len(repos) > 0
       THEN /\ ui' = [UIIdle EXCEPT !.pc = "rf_probe", !.h = "refresh", !.i = 1]
            /\ UNCHANGED repoView
       ELSE EnterRepoView("refresh")
  /\ UNCHANGED <<repos, world, gitStatuses, fetchingRepos, isFetching,
                 spinnerFrame, mu, bpc, bi, wpc, wres, pending, selectedRepo,
                 selectedFile, currentView, focused, launchLazyGit, lazyGitRepo, commandTemplate, cmd, files, cli,
                 running, crashed, fileView, diffView, helpView, order, late>>

\* updateGitStatuses, line 260: checkGitStatus(repo) returns on the UI thread
UIRefreshProbe ==
  /\ Looping /\ ui.pc = "rf_probe"
  /\ ui' = [ui EXCEPT !.pc = "rf_store",
                      !.st = checkGitStatus(repos[ui.i], world[repos[ui.i]])]
  /\ UNCHANGED <<repos, world, events, gitStatuses, fetchingRepos, isFetching,
                 spinnerFrame, mu, bpc, bi, wpc, wres, pending, selectedRepo, selectedFile, currentView, focused, launchLazyGit,
                 lazyGitRepo, commandTemplate, cmd, files, cli, running, crashed, repoView, fileView, diffView,
                 helpView, order, late>>

\* updateGitStatuses, line 260: a.gitStatuses[repo] = ..., a.mu not held
UIRefreshStore ==
  /\ Looping /\ ui.pc = "rf_store"
  /\ gitStatuses' = Put(gitStatuses, repos[ui.i], ui.st)
  /\ IF ui.i < Len(repos)
       THEN /\ ui' = [ui EXCEPT !.pc = "rf_probe", !.i = ui.i + 1,
                                !.st = ZeroStatus]
            /\ UNCHANGED repoView
       ELSE EnterRepoView("refresh")
  /\ UNCHANGED <<repos, world, events, fetchingRepos, isFetching, spinnerFrame,
                 mu, bpc, bi, wpc, wres, pending, selectedRepo,
                 selectedFile, currentView, focused, launchLazyGit, lazyGitRepo, commandTemplate, cmd, files, cli,
                 running, crashed, fileView, diffView, helpView, order, late>>

\* the callback spinnerTick queued with g.Update runs: updateRepoView, then
\* updateHelpView
UIUserEvent ==
  /\ TakesEvents /\ pending > 0
  /\ pending' = pending - 1
  /\ EnterRepoView("tick")
  /\ UNCHANGED <<repos, world, events, gitStatuses, fetchingRepos, isFetching,
                 spinnerFrame, mu, bpc, bi, wpc, wres, selectedRepo,
                 selectedFile, currentView, focused, launchLazyGit, lazyGitRepo, commandTemplate, cmd, files, cli,
                 running, crashed, fileView, diffView, helpView, order, late>>

(***************************************************************************)
(* Unsynchronised map access.  The UI thread reads and writes a.gitStatuses*)
(* and reads a.fetchingRepos without a.mu; when it does so while a         *)
(* goroutine is inside a write of the same map, the Go runtime may abort   *)
(* the process ("concurrent map read and map write", "concurrent map       *)
(* writes").                                                               *)
(***************************************************************************)
UIAtStatusMap ==
  \/ ui.pc \in {"rv_st", "rf_store"}
  \/ ui.pc = "rest" /\ ui.h # "tick" /\ selectedRepo < Len(repos)

UIAtFetchingMap == ui.pc = "rv_fl"

WriterInStatusMap == \E r \in Repo : wpc[r] = "store"

WriterInFetchingMap == bpc = "mark" \/ \E r \in Repo : wpc[r] = "delete"

Crash ==
  /\ Looping
  /\ \/ UIAtStatusMap /\ WriterInStatusMap
     \/ UIAtFetchingMap /\ WriterInFetchingMap
  /\ crashed' = TRUE
  /\ ProcessGone
  /\ UNCHANGED <<repos, world, events, launchLazyGit, lazyGitRepo, commandTemplate, cmd, files, cli, running>>

(***************************************************************************)
(* The program.                                                            *)
(***************************************************************************)
Batch == BatchLock \/ BatchMark \/ BatchSpawn \/ BatchFinish

Worker(r) ==
  WorkerFetch(r) \/ WorkerLock(r) \/ WorkerProbe(r) \/ WorkerStore(r)
    \/ WorkerDelete(r)

UIStep ==
  UIStart \/ UIReadStatus \/ UIReadFlag \/ UIRest \/ UILayout \/ UIRefreshProbe
    \/ UIRefreshStore \/ UIUserEvent

Key ==
  KeyQuit \/ KeyTab \/ KeyEnter \/ KeyCursor(-1) \/ KeyCursor(1)
    \/ KeyFileCursorUp \/ KeyFileCursorDown \/ KeyRefresh

Next ==
  \/ Batch
  \/ \E r \in Repo : Worker(r)
  \/ spinnerTick
  \/ UIStep
  \/ Key
  \/ Crash
  \/ ExternalReturns
  \/ \E r \in Repo : WorldChange(r)

Spec == Init /\ [][Next]_vars

\* Scheduling: a goroutine that can run, or that can run again and again, is
\* run (the Go scheduler; sync.Mutex hands the lock to a starving waiter), and
\* every subprocess a worker waits for returns
LiveSpec ==
  Spec /\ SF_vars(Batch) /\ \A r \in Repo : SF_vars(Worker(r))

\* LiveSpec with a UI thread that runs when it has something to do and a
\* progress clock that keeps waking up; no key is required ever to be pressed
RenderLiveSpec ==
  LiveSpec /\ WF_vars(UIStep) /\ WF_vars(spinnerTick)

(***************************************************************************)
(* main from the return of MainLoop on (lines 833-858), for any template   *)
(* and any path launchExternal may have recorded.                          *)
(***************************************************************************)
\* pieces a template is put together from in LaunchTemplates
MaxPieces == 3

TemplatePieces == {<<" ">>, <<"g">>, <<"-", "p">>, Placeholder}

RECURSIVE Concat(_)
Concat(ss) == IF ss = <<>> THEN <<>> ELSE Head(ss) \o Concat(Tail(ss))

\* the values of config.EnterCommandBinary
LaunchTemplates ==
  {Concat(ps) : ps \in UNION {[1..n -> TemplatePieces] : n \in 0..MaxPieces}}

\* the values of app.lazyGitRepo when launchLazyGit is set
LaunchPaths == {"/r/a", "/r c"}

LaunchInit ==
  /\ NoDashboard
  /\ world = [r \in Repo |-> WNotRepo]
  /\ running = "returned"
  /\ launchLazyGit \in BOOLEAN
  /\ lazyGitRepo \in (IF launchLazyGit THEN LaunchPaths ELSE {""})
  /\ repos = IF launchLazyGit THEN <<lazyGitRepo>> ELSE <<>>
  /\ commandTemplate = <<>>
  /\ cmd = <<>>
  /\ files = NoFiles
  /\ cli = NoCli

\* lines 834-852: main returns when launchLazyGit is not set or the command has
\* no field, and makes the exec.Command otherwise
MainLaunch ==
  /\ running = "returned"
  /\ IF launchLazyGit
       THEN \E t \in LaunchTemplates :
              /\ commandTemplate' = t
              /\ cmd' = Command(t, PathChars(lazyGitRepo))
              /\ running' = IF Command(t, PathChars(lazyGitRepo)) = <<>>
                              THEN "ended" ELSE "external"
       ELSE /\ running' = "ended"
            /\ UNCHANGED <<commandTemplate, cmd>>
  /\ DashboardUnchanged
  /\ UNCHANGED <<repos, world, events, ui, launchLazyGit, lazyGitRepo, files,
                 cli, crashed>>

LaunchNext == MainLaunch \/ ExternalReturns

LaunchSpec == LaunchInit /\ [][LaunchNext]_vars

(***************************************************************************)
(* The command-line invocations of main (lines 769-797), one process each, *)
(* over the configuration files they share.                                *)
(***************************************************************************)
\* invocations in one run
MaxRuns == 2

\* the paths given to -a and -d
CliPaths == {PathA, PathARelative, PathB, PathN, PathX}

CliInit ==
  /\ NoDashboard
  /\ repos = <<>>
  /\ world = [r \in Repo |-> WNotRepo]
  /\ running = "ended"
  /\ launchLazyGit = FALSE
  /\ lazyGitRepo = ""
  /\ commandTemplate = <<>>
  /\ cmd = <<>>
  /\ files \in [{"local", "home"} -> StartFiles]
  /\ cli = NoCli

\* an invocation with the given flag and argument ran the handler to outcome o
Invoked(flag, arg, o) ==
  /\ cli.runs < MaxRuns
  /\ cli' = [runs |-> cli.runs + 1, flag |-> flag, arg |-> arg,
             exit |-> o.exit, out |-> o.out, saved |-> o.saved,
             loaded |-> loadConfig(files), config |-> o.config]
  /\ files' = o.files
  /\ DashboardUnchanged
  /\ UNCHANGED <<repos, world, events, ui, launchLazyGit, lazyGitRepo,
                 commandTemplate, cmd, running, crashed>>

\* gitmoni -a path
CliAdd(path) == Invoked("a", path, addRepositoryFromCommandLine(files, path))

\* gitmoni -l
CliList == Invoked("l", <<>>, listRepositoriesFromCommandLine(files))

\* gitmoni -d path
CliDelete(path) ==
  Invoked("d", path, deleteRepositoryFromCommandLine(files, path))

CliNext ==
  \/ \E path \in CliPaths : CliAdd(path)
  \/ CliList
  \/ \E path \in CliPaths : CliDelete(path)

CliSpec == CliInit /\ [][CliNext]_vars

(***************************************************************************)
(* Calls of Config.addRepositoryWithPath and Config.removeRepository on    *)
(* one Config, one after another.                                          *)
(***************************************************************************)
\* entries of the list a call starts from
MaxList == 2

\* the paths a list holds and a call is given
ListPaths == {PathA, PathARelative, PathASlash, PathB, PathX}

\* no two entries of the list are the same absolute path
NoDuplicates(list) ==
  \A i, j \in 1..Len(list) : Abs(list[i]) = Abs(list[j]) => i = j

StartLists ==
  {list \in UNION {[1..n -> ListPaths] : n \in 0..MaxList} : NoDuplicates(list)}

\* cli holds the calls made: their count, the last one with its argument and
\* its result, c.Repositories before it (loaded) and after it (config)
ListInit ==
  /\ NoDashboard
  /\ repos = <<>>
  /\ world = [r \in Repo |-> WNotRepo]
  /\ running = "ended"
  /\ launchLazyGit = FALSE
  /\ lazyGitRepo = ""
  /\ commandTemplate = <<>>
  /\ cmd = <<>>
  /\ files = NoFiles
  /\ \E list \in StartLists :
       LET config == [DefaultConfig EXCEPT !.Repositories = list]
       IN  cli = [runs |-> 0, flag |-> "", arg |-> <<>>, returned |-> FALSE,
                  loaded |-> config, config |-> config]

\* a call of the method with the argument returned and left config behind
Called(method, arg, returned, config) ==
  /\ cli.runs < MaxRuns
  /\ cli' = [runs |-> cli.runs + 1, flag |-> method, arg |-> arg,
             returned |-> returned, loaded |-> cli.config, config |-> config]
  /\ DashboardUnchanged
  /\ UNCHANGED <<repos, world, events, ui, launchLazyGit, lazyGitRepo,
                 commandTemplate, cmd, files, running, crashed>>

\* c.addRepositoryWithPath(path)
ListAdd(path) ==
  LET o == addRepositoryWithPath(cli.config, path)
  IN  Called("add", path, o.added, o.config)

\* c.removeRepository(path)
ListRemove(path) ==
  LET o == removeRepository(cli.config, path)
  IN  Called("remove", path, o.removed, o.config)

ListNext ==
  \/ \E path \in ListPaths : ListAdd(path)
  \/ \E path \in ListPaths : ListRemove(path)

ListSpec == ListInit /\ [][ListNext]_vars

(***************************************************************************)
(* NewApp's first probe (lines 250-253, 258-262) of one configured          *)
(* repository, for the answers git may give.                                *)
(***************************************************************************)
\* lines of one porcelain output
MaxLines == 2

\* what `git status --porcelain` reports of one changed file: the two status
\* characters and the path, quoted by git when it holds special characters
PorcelainLines ==
  {[xy |-> <<" ", "M">>, path |-> <<"a">>],
   [xy |-> <<"?", "?">>, path |-> <<"b">>],
   [xy |-> <<"M", " ">>, path |-> <<"\"", "c", " ", "d", "\"">>],
   [xy |-> <<"A", "M">>, path |-> <<"e", "/", "f">>]}

\* the reports of one run of `git status --porcelain`
PorcelainReports == UNION {[1..n -> PorcelainLines] : n \in 0..MaxLines}

\* the standard output of git for a report: "XY path\n" per changed file
RECURSIVE Rendered(_)
Rendered(report) ==
  IF report = <<>> THEN <<>>
  ELSE Head(report).xy \o <<" ">> \o Head(report).path \o <<"\n">>
         \o Rendered(Tail(report))

\* the largest count `git rev-list --count` answers
MaxBehind == 3

\* the answers of the git commands checkRemoteStatus runs.  The upstream of a
\* branch may be a local branch, so a repository without a remote may have one
RemoteAnswers ==
  {[WBase EXCEPT !.remotes = "fail"],
   [WBase EXCEPT !.branch = "fail"],
   [WBase EXCEPT !.branch = "none"],
   [WBase EXCEPT !.upstream = "fail"],
   [WBase EXCEPT !.behindErr = TRUE]}
    \cup {[WBase EXCEPT !.behind = n] : n \in 0..MaxBehind}
    \cup {[WBase EXCEPT !.remotes = "none", !.behind = n] : n \in 0..MaxBehind}

\* the external states of the probed repository
ProbeWorlds ==
  {[w EXCEPT !.statusOut = Rendered(report)] :
     w \in RemoteAnswers, report \in PorcelainReports}

ProbeInit ==
  /\ NoDashboard
  /\ repos = <<AllRepos[1]>>
  /\ world \in {w \in [Repo -> ProbeWorlds \cup {WNotRepo}] :
                  w[AllRepos[1]] \in ProbeWorlds /\ w[AllRepos[2]] = WNotRepo}
  /\ running = "starting"
  /\ launchLazyGit = FALSE
  /\ lazyGitRepo = ""
  /\ commandTemplate = <<>>
  /\ cmd = <<>>
  /\ files = NoFiles
  /\ cli = NoCli

\* NewApp: the App is made with isFetching set and updateGitStatuses stores a
\* record for every configured repository
NewAppProbe ==
  /\ running = "starting"
  /\ running' = "constructed"
  /\ isFetching' = TRUE
  /\ gitStatuses' = InitialStatuses(repos, world)
  /\ UNCHANGED <<repos, world, events, fetchingRepos, spinnerFrame, mu, bpc, bi,
                 wpc, wres, pending, ui, selectedRepo, selectedFile,
                 currentView, focused, launchLazyGit, lazyGitRepo,
                 commandTemplate, cmd, files, cli, crashed, repoView, fileView,
                 diffView, helpView, order, late>>

\* refresh's updateGitStatuses (line 597) once more, nothing outside the
\* program having changed since the records were stored
Recheck ==
  /\ running = "constructed" /\ events < MaxEvents
  /\ events' = events + 1
  /\ gitStatuses' = updateGitStatuses(gitStatuses, repos, world)
  /\ UNCHANGED <<repos, world, fetchingRepos, isFetching, spinnerFrame, mu, bpc,
                 bi, wpc, wres, pending, ui, selectedRepo, selectedFile,
                 currentView, focused, launchLazyGit, lazyGitRepo,
                 commandTemplate, cmd, files, cli, running, crashed, repoView,
                 fileView, diffView, helpView, order, late>>

ProbeNext == NewAppProbe \/ Recheck

ProbeSpec == ProbeInit /\ [][ProbeNext]_vars

\* the probed path may also lack .git (a directory inside a working tree
\* answers the git commands all the same), and `git status` may fail
FailingProbeWorlds ==
  {[w EXCEPT !.isRepo = FALSE] : w \in ProbeWorlds}
    \cup {[w EXCEPT !.statusErr = TRUE] : w \in ProbeWorlds}

AnyProbeInit ==
  /\ NoDashboard
  /\ repos = <<AllRepos[1]>>
  /\ world \in {w \in [Repo -> ProbeWorlds \cup FailingProbeWorlds \cup {WNotRepo}] :
                  w[AllRepos[2]] = WNotRepo}
  /\ running = "starting"
  /\ launchLazyGit = FALSE
  /\ lazyGitRepo = ""
  /\ commandTemplate = <<>>
  /\ cmd = <<>>
  /\ files = NoFiles
  /\ cli = NoCli

AnyProbeSpec == AnyProbeInit /\ [][ProbeNext]_vars

(***************************************************************************)
(* The dashboard over working trees that lose one of their two changes     *)
(* while it runs.                                                           *)
(***************************************************************************)
\* " M a\n": the output of `git status --porcelain` once b is gone
OneChange == <<" ", "M", " ", "a", "\n">>

\* a working tree with the two changes of WDirty and a remote
WTwoChanges == [WBase EXCEPT !.statusOut = WDirty.statusOut]

CursorInit ==
  /\ repos \in {SubSeq(AllRepos, 1, n) : n \in 1..Len(AllRepos)}
  /\ world = [r \in Repo |-> IF r \in Configured THEN WTwoChanges ELSE WNotRepo]
  /\ events = 0
  /\ gitStatuses = InitialStatuses(repos, world)
  /\ fetchingRepos = {}
  /\ isFetching = TRUE
  /\ spinnerFrame = 0
  /\ mu = "free"
  /\ bpc = "lock"
  /\ bi = 0
  /\ wpc = [r \in Repo |-> "none"]
  /\ wres = [r \in Repo |-> ZeroStatus]
  /\ pending = 0
  /\ ui = [UIIdle EXCEPT !.pc = "start"]
  /\ selectedRepo = 0
  /\ selectedFile = 0
  /\ currentView = "none"
  /\ focused = "focusRepo"
  /\ launchLazyGit = FALSE
  /\ lazyGitRepo = ""
  /\ commandTemplate = <<>>
  /\ cmd = <<>>
  /\ files = NoFiles
  /\ cli = NoCli
  /\ running = "loop"
  /\ crashed = FALSE
  /\ repoView = <<>>
  /\ fileView = <<>>
  /\ diffView = <<>>
  /\ helpView = <<>>
  /\ order = <<>>
  /\ late = 0

\* the untracked file of r's working tree is removed from outside
TreeShrinks(r) ==
  /\ Alive /\ r \in Configured
  /\ world[r].statusOut = WDirty.statusOut
  /\ world' = [world EXCEPT ![r].statusOut = OneChange]
  /\ UNCHANGED <<repos, events>>
  /\ UNCHANGED progVars

\* the program without quit and Enter; the one change from outside is
\* TreeShrinks
CursorNext ==
  \/ Batch
  \/ \E r \in Repo : Worker(r)
  \/ spinnerTick
  \/ UIStep
  \/ KeyTab \/ KeyCursor(-1) \/ KeyCursor(1)
  \/ KeyFileCursorUp \/ KeyFileCursorDown \/ KeyRefresh
  \/ Crash
  \/ \E r \in Repo : TreeShrinks(r)

CursorSpec == CursorInit /\ [][CursorNext]_vars

(***************************************************************************)
(* The message-driven dashboard of src/git.go: a bubbletea program.  Its   *)
(* event loop runs model.Update for one message at a time; commands run in *)
(* goroutines of their own.  tea.Batch runs its commands concurrently,     *)
(* tea.Sequence runs them one after another, sending the message of each   *)
(* to the event loop before it starts the next.                            *)
(*   bpc, bi    the goroutine of tea.Sequence: "seq" while it runs, and    *)
(*              the index of its current command                           *)
(*   wpc[r]     the command of r: "fetch" (fetchRemoteUpdates runs),       *)
(*              "sent" (its repoFetchCompleteMsg awaits the event loop)    *)
(*   pending    1 while a spinner.TickMsg is on its way                    *)
(*   repoView, fileView, diffView                                          *)
(*              the items of m.repoList and m.fileList, and the file whose *)
(*              diff is m.currentDiff                                      *)
(***************************************************************************)
\* updateRepoList: an item per configured repository, with the record of m or
\* the 'Status not loaded' record, and the flag of f.  The item's spinner is
\* left out
RepoItems(m, f) ==
  [i \in 1..Len(repos) |->
     [path |-> repos[i],
      status |-> IF repos[i] \in DOMAIN m THEN m[repos[i]]
                 ELSE [ZeroStatus EXCEPT !.Path = repos[i], !.HasError = TRUE,
                                         !.Error = "Status not loaded"],
      isFetching |-> repos[i] \in f]]

\* updateFileList: the items of m.fileList after it, items those before it
FileItems(m, sel, items) ==
  IF sel >= Len(repos) THEN items
  ELSE IF repos[sel + 1] \notin DOMAIN m \/ m[repos[sel + 1]].HasError THEN <<>>
  ELSE m[repos[sel + 1]].Files

\* updateDiff: m.currentDiff after it, for the items of m.fileList; diff is
\* the one before it
DiffOf(sel, selFile, items, diff) ==
  IF selFile >= 0 /\ selFile < Len(items)
    THEN <<[repo |-> repos[sel + 1], path |-> items[selFile + 1].Path]>>
    ELSE diff

\* selectRepo(index) and the same statements in the cursor keys' handlers:
\* updateFileList, then selectFile(0) or an empty diff
Selected(m, index) ==
  LET items == FileItems(m, index, fileView)
  IN  [selectedRepo |-> index,
       selectedFile |-> IF Len(items) > 0 THEN 0 ELSE selectedFile,
       fileView |-> items,
       diffView |-> IF Len(items) > 0 THEN DiffOf(index, 0, items, diffView)
                    ELSE <<>>]

\* what the bubbletea program does not have
MsgUnused ==
  UNCHANGED <<mu, wres, ui, currentView, commandTemplate, cmd, files, cli,
              crashed, helpView, order, late>>

\* initialModel has returned
MsgInit ==
  /\ repos \in {SubSeq(AllRepos, 1, n) : n \in 0..Len(AllRepos)}
  /\ world \in {w \in [Repo -> {WClean, WDirty, WNotRepo, WStatusFail}] :
                  \A r \in Repo :
                    IF \E i \in 1..Len(repos) : repos[i] = r
                      THEN w[r] \in StartWorlds(r)
                      ELSE w[r] = WNotRepo}
  /\ events = 0
  /\ gitStatuses = InitialStatuses(repos, world)
  /\ fetchingRepos = {}
  /\ isFetching = TRUE
  /\ spinnerFrame = 0
  /\ mu = "free"
  /\ bpc = "none"
  /\ bi = 0
  /\ wpc = [r \in Repo |-> "none"]
  /\ wres = [r \in Repo |-> ZeroStatus]
  /\ pending = 0
  /\ ui = UIIdle
  /\ selectedRepo = 0
  /\ focused = "focusRepo"
  /\ repoView = RepoItems(gitStatuses, {})
  /\ LET first == FileItems(gitStatuses, 0, <<>>)
     IN  /\ fileView = first
         /\ selectedFile = 0
         /\ diffView = IF Len(repos) > 0 /\ Len(first) > 0
                         THEN DiffOf(0, 0, first, <<>>) ELSE <<>>
  /\ currentView = "none"
  /\ launchLazyGit = FALSE
  /\ lazyGitRepo = ""
  /\ commandTemplate = <<>>
  /\ cmd = <<>>
  /\ files = NoFiles
  /\ cli = NoCli
  /\ running = "starting"
  /\ crashed = FALSE
  /\ helpView = <<>>
  /\ order = <<>>
  /\ late = 0

\* the event loop takes messages
MsgLoop == running = "loop"

\* the goroutine of tea.Sequence starts the command of the first repository
SequenceStarts ==
  /\ bpc' = "seq" /\ bi' = 1
  /\ wpc' = [r \in Repo |-> IF r = repos[1] THEN "fetch" ELSE "none"]

\* model.Init, as p.Run calls it: the flags are set in the map the model
\* shares with its copies, and the ticks and fetchRemotesCmd are started
ModelInit ==
  /\ running = "starting"
  /\ running' = "loop"
  /\ IF isFetching /\ Len(repos) > 0
       THEN /\ fetchingRepos' = fetchingRepos \cup Configured
            /\ pending' = 1
            /\ SequenceStarts
       ELSE UNCHANGED <<fetchingRepos, pending, bpc, bi, wpc>>
  /\ UNCHANGED <<repos, world, events, gitStatuses, isFetching, spinnerFrame,
                 selectedRepo, selectedFile, focused, launchLazyGit,
                 lazyGitRepo, repoView, fileView, diffView>>
  /\ MsgUnused

\* the command of r in fetchRemotesCmd: fetchRemoteUpdates(r) returns, with
\* an error or without, and repoFetchCompleteMsg{r} is sent
FetchReturns(r) ==
  /\ MsgLoop /\ bpc = "seq" /\ wpc[r] = "fetch"
  /\ \E ok \in BOOLEAN :
       world' = [world EXCEPT ![r] = fetchRemoteUpdates(world[r], ok)]
  /\ wpc' = [wpc EXCEPT ![r] = "sent"]
  /\ UNCHANGED <<repos, running, events, gitStatuses, fetchingRepos, isFetching,
                 spinnerFrame, bpc, bi, pending, selectedRepo, selectedFile,
                 focused, launchLazyGit, lazyGitRepo, repoView, fileView,
                 diffView>>
  /\ MsgUnused

\* mutant of the handler below: the message of one repository ends the batch
FetchCompleteClearsAll(r) ==
  /\ MsgLoop /\ wpc[r] = "sent"
  /\ fetchingRepos' = {}
  /\ gitStatuses' = Put(gitStatuses, r, checkGitStatus(r, world[r]))
  /\ repoView' = RepoItems(gitStatuses', fetchingRepos')
  /\ IF selectedRepo < Len(repos) /\ repos[selectedRepo + 1] = r
       THEN /\ fileView' = FileItems(gitStatuses', selectedRepo, fileView)
            /\ diffView' = IF Len(fileView') > 0
                             THEN DiffOf(selectedRepo, selectedFile, fileView',
                                         diffView)
                             ELSE diffView
       ELSE UNCHANGED <<fileView, diffView>>
  /\ isFetching' = FALSE
  /\ UNCHANGED pending
  /\ IF bi < Len(repos)
       THEN /\ bi' = bi + 1
            /\ wpc' = [wpc EXCEPT ![r] = "none", ![repos[bi + 1]] = "fetch"]
            /\ UNCHANGED bpc
       ELSE /\ bpc' = "none" /\ bi' = 0
            /\ wpc' = [wpc EXCEPT ![r] = "none"]
  /\ UNCHANGED <<repos, running, world, events, spinnerFrame, selectedRepo, selectedFile,
                 focused, launchLazyGit, lazyGitRepo>>
  /\ MsgUnused

\* Update, case repoFetchCompleteMsg (lines 675-695); the send has returned,
\* so the sequence goes on to its next command
FetchComplete(r) ==
  /\ MsgLoop /\ wpc[r] = "sent"
  /\ fetchingRepos' = fetchingRepos \ {r}
  /\ gitStatuses' = Put(gitStatuses, r, checkGitStatus(r, world[r]))
  /\ repoView' = RepoItems(gitStatuses', fetchingRepos')
  /\ IF selectedRepo < Len(repos) /\ repos[selectedRepo + 1] = r
       THEN /\ fileView' = FileItems(gitStatuses', selectedRepo, fileView)
            /\ diffView' = IF Len(fileView') > 0
                             THEN DiffOf(selectedRepo, selectedFile, fileView',
                                         diffView)
                             ELSE diffView
       ELSE UNCHANGED <<fileView, diffView>>
  /\ IF fetchingRepos' = {}
       THEN isFetching' = FALSE /\ UNCHANGED pending
       ELSE pending' = 1 /\ UNCHANGED isFetching
  /\ IF bi < Len(repos)
       THEN /\ bi' = bi + 1
            /\ wpc' = [wpc EXCEPT ![r] = "none", ![repos[bi + 1]] = "fetch"]
            /\ UNCHANGED bpc
       ELSE /\ bpc' = "none" /\ bi' = 0
            /\ wpc' = [wpc EXCEPT ![r] = "none"]
  /\ UNCHANGED <<repos, running, world, events, spinnerFrame, selectedRepo, selectedFile,
                 focused, launchLazyGit, lazyGitRepo>>
  /\ MsgUnused

\* Update, case spinner.TickMsg (lines 697-722): the spinners advance and the
\* next tick is asked for while something is fetching
TickMsg ==
  /\ MsgLoop /\ pending > 0
  /\ IF isFetching \/ fetchingRepos # {}
       THEN /\ spinnerFrame' = IF spinnerFrame < MaxFrame
                                 THEN spinnerFrame + 1 ELSE 0
            /\ repoView' = RepoItems(gitStatuses, fetchingRepos)
            /\ UNCHANGED pending
       ELSE /\ pending' = 0
            /\ UNCHANGED <<spinnerFrame, repoView>>
  /\ UNCHANGED <<repos, running, world, events, gitStatuses, fetchingRepos, isFetching,
                 bpc, bi, wpc, selectedRepo, selectedFile, focused,
                 launchLazyGit, lazyGitRepo, fileView, diffView>>
  /\ MsgUnused

\* a key arrives
MsgKey == MsgLoop /\ events < MaxEvents /\ events' = events + 1

\* tea.Quit: p.Run returns and the program's goroutines are gone
MsgQuits ==
  /\ running' = "ended"
  /\ bpc' = "none" /\ bi' = 0 /\ wpc' = [r \in Repo |-> "none"]
  /\ pending' = 0

\* 'q', ctrl+c
MsgKeyQuit ==
  /\ MsgKey
  /\ MsgQuits
  /\ UNCHANGED <<repos, world, gitStatuses, fetchingRepos, isFetching,
                 spinnerFrame, selectedRepo, selectedFile, focused,
                 launchLazyGit, lazyGitRepo, repoView, fileView, diffView>>
  /\ MsgUnused

\* enter
MsgKeyEnter ==
  /\ MsgKey
  /\ IF Len(repos) > 0
       THEN /\ launchLazyGit' = TRUE
            /\ lazyGitRepo' = repos[selectedRepo + 1]
            /\ MsgQuits
       ELSE UNCHANGED <<launchLazyGit, lazyGitRepo, running, bpc, bi, wpc,
                        pending>>
  /\ UNCHANGED <<repos, world, gitStatuses, fetchingRepos, isFetching,
                 spinnerFrame, selectedRepo, selectedFile, focused, repoView,
                 fileView, diffView>>
  /\ MsgUnused

\* tab
MsgKeyTab ==
  /\ MsgKey
  /\ focused' = IF focused = "focusRepo" THEN "focusFile"
                ELSE IF focused = "focusFile" THEN "focusDiff"
                ELSE "focusRepo"
  /\ UNCHANGED <<repos, world, gitStatuses, fetchingRepos, isFetching,
                 spinnerFrame, bpc, bi, wpc, pending, selectedRepo,
                 selectedFile, launchLazyGit, lazyGitRepo, running, repoView,
                 fileView, diffView>>
  /\ MsgUnused

\* the index of a list of n items after a step d of its cursor
Moved(index, d, n) ==
  IF index + d < 0 THEN 0 ELSE IF index + d > n - 1 THEN n - 1 ELSE index + d

\* up, k (d = -1) and down, j (d = 1): the focused pane moves its cursor
MsgKeyCursor(d) ==
  /\ MsgKey
  /\ IF focused = "focusRepo" /\ Len(repoView) > 0
       THEN LET s == Selected(gitStatuses, Moved(selectedRepo, d, Len(repoView)))
            IN  /\ selectedRepo' = s.selectedRepo
                /\ selectedFile' = s.selectedFile
                /\ fileView' = s.fileView
                /\ diffView' = s.diffView
     ELSE IF focused = "focusFile" /\ Len(fileView) > 0
       THEN /\ selectedFile' = Moved(selectedFile, d, Len(fileView))
            /\ diffView' = DiffOf(selectedRepo, selectedFile', fileView, diffView)
            /\ UNCHANGED <<selectedRepo, fileView>>
     ELSE UNCHANGED <<selectedRepo, selectedFile, fileView, diffView>>
  /\ UNCHANGED <<repos, world, gitStatuses, fetchingRepos, isFetching,
                 spinnerFrame, bpc, bi, wpc, pending, focused, launchLazyGit,
                 lazyGitRepo, running, repoView>>
  /\ MsgUnused

\* 'r': updateGitStatuses, updateRepoList, updateFileList
MsgKeyRefresh ==
  /\ MsgKey
  /\ gitStatuses' = updateGitStatuses(gitStatuses, repos, world)
  /\ repoView' = RepoItems(gitStatuses', fetchingRepos)
  /\ fileView' = FileItems(gitStatuses', selectedRepo, fileView)
  /\ UNCHANGED <<repos, world, fetchingRepos, isFetching, spinnerFrame, bpc,
                 bi, wpc, pending, selectedRepo, selectedFile, focused,
                 launchLazyGit, lazyGitRepo, running, diffView>>
  /\ MsgUnused

\* 'f' (lines 869-893)
MsgKeyFetch ==
  /\ MsgKey
  /\ IF ~isFetching
       THEN /\ isFetching' = TRUE
            /\ fetchingRepos' = fetchingRepos \cup Configured
            /\ repoView' = RepoItems(gitStatuses, fetchingRepos')
            /\ pending' = 1
            /\ IF Len(repos) > 0 THEN SequenceStarts
                                 ELSE UNCHANGED <<bpc, bi, wpc>>
       ELSE UNCHANGED <<isFetching, fetchingRepos, repoView, pending, bpc, bi,
                        wpc>>
  /\ UNCHANGED <<repos, world, gitStatuses, spinnerFrame, selectedRepo,
                 selectedFile, focused, launchLazyGit, lazyGitRepo, running,
                 fileView, diffView>>
  /\ MsgUnused

MsgNext ==
  \/ ModelInit
  \/ \E r \in Repo : FetchReturns(r)
  \/ \E r \in Repo : FetchComplete(r)
  \/ TickMsg
  \/ MsgKeyQuit \/ MsgKeyEnter \/ MsgKeyTab \/ MsgKeyCursor(-1)
  \/ MsgKeyCursor(1) \/ MsgKeyRefresh \/ MsgKeyFetch
  \/ \E r \in Repo : WorldChange(r)

MsgSpec == MsgInit /\ [][MsgNext]_vars

\* the repository whose fetch need not ever return
StuckRepo == AllRepos[1]

\* Scheduling: the program is started, the event loop handles every message
\* sent to it, and every fetch returns but that of StuckRepo, which returns
\* or does not
StuckMsgSpec ==
  /\ MsgSpec
  /\ WF_vars(ModelInit)
  /\ WF_vars(TickMsg)
  /\ \A r \in Repo : WF_vars(FetchComplete(r))
  /\ \A r \in Repo \ {StuckRepo} : WF_vars(FetchReturns(r))

(***************************************************************************)
(* C1.  Completion of a batch.                                             *)
(***************************************************************************)
\* the batch is over and every configured repository has its record: a file
\* list (IsRepo) or an error (HasError)
BatchDone ==
  /\ Alive
  /\ ~isFetching /\ fetchingRepos = {}
  /\ \A r \in Configured :
       /\ r \in DOMAIN gitStatuses
       /\ gitStatuses[r].Path = r
       /\ gitStatuses[r].HasError \/ gitStatuses[r].IsRepo

\* C1: for a non-empty configuration, once fetchRemotesAsync has been started
\* and as long as the user does not leave the render loop, fair scheduling and
\* returning subprocesses lead to a state in which isFetching is false,
\* fetchingRepos is empty and every configured repository has a record
C1_BatchCompletes ==
  (repos # <<>> /\ bpc = "lock") ~> (BatchDone \/ running # "loop")

(***************************************************************************)
(* C2.  The two reads of updateRepoView.                                   *)
(***************************************************************************)
\* C2: when updateRepoView reads fetchingRepos[repo] and finds the flag
\* cleared, the record it read just before from gitStatuses[repo] is the one
\* the map holds now: it never pairs refreshing=false with the record from
\* before the worker's write
C2_NoTornTriple ==
  [][(UIReadFlag /\ repos[ui.i] \notin fetchingRepos)
       => ui.st = Get(gitStatuses, repos[ui.i])]_vars

(***************************************************************************)
(* C3.  Transitions of a repository's flag.                                *)
(***************************************************************************)
\* the positions of a worker that has been started and has not completed
InFlight == {"fetch", "lock", "probe", "store", "delete"}

\* C3: while the process runs, fetchingRepos gains r only in the marking loop
\* of a batch, whose workers are then started for every marked repository, and
\* loses r only in the step of r's own worker that also releases the mutex,
\* taken from the position the worker reaches by writing gitStatuses[r] with
\* the mutex held
C3_FlagTransitions ==
  [][\A r \in Repo :
       /\ (r \notin fetchingRepos /\ r \in fetchingRepos')
            => (bpc = "mark" /\ mu = "batch" /\ bi <= Len(repos) /\ repos[bi] = r)
       /\ (bpc' = "wait" /\ r \in fetchingRepos') => wpc'[r] \in InFlight
       /\ (r \in fetchingRepos /\ r \notin fetchingRepos' /\ Alive')
            => (wpc[r] = "delete" /\ mu = r /\ mu' = "free" /\ wpc'[r] = "done")
       /\ (wpc[r] # "delete" /\ wpc'[r] = "delete")
            => (mu = r /\ mu' = r /\ r \in fetchingRepos'
                /\ r \in DOMAIN gitStatuses' /\ gitStatuses'[r] = wres[r])]_vars

\* one worker has cleared its flag and the other, its record written, is about
\* to clear its own
C3_Witness ==
  /\ Alive
  /\ \E r, o \in Configured :
       /\ wpc[r] = "done" /\ r \notin fetchingRepos
       /\ wpc[o] = "delete" /\ o \in fetchingRepos /\ mu = o

(***************************************************************************)
(* C4.  The copy of a record by a reader.                                  *)
(***************************************************************************)
\* C4: the record updateRepoView copies from gitStatuses[repo] is the record
\* the map held before the worker's assignment or the one the worker assigns,
\* never the local status of one with the remote comparison of the other
C4_AtomicCompletion ==
  [][UIReadStatus
       => \/ ui'.st = Get(gitStatuses, repos[ui.i])
          \/ wpc[repos[ui.i]] = "store" /\ ui'.st = wres[repos[ui.i]]]_vars

(***************************************************************************)
(* C5.  Order of completion.                                               *)
(***************************************************************************)
\* C5: with two repositories, no key pressed and no working tree edited, once
\* both workers have completed, in either order, the registry is determined by
\* the repositories' external states alone: every record is the probe of its
\* repository, no flag is set, and isFetching still awaits the batch goroutine
C5_OrderIndependent ==
  (Alive /\ events = 0 /\ Len(repos) = 2 /\ Len(order) = 2)
    => /\ gitStatuses = [r \in Configured |-> checkGitStatus(r, world[r])]
       /\ fetchingRepos = {}
       /\ isFetching /\ bpc = "wait"

\* the second repository's worker completed before the first's, and the two
\* records differ
C5_Witness ==
  /\ Alive /\ events = 0 /\ Len(repos) = 2
  /\ order = <<repos[2], repos[1]>>
  /\ gitStatuses[repos[1]].RemoteStatus = "1 commits behind"
  /\ Len(gitStatuses[repos[2]].Files) = 2

(***************************************************************************)
(* C6.  A subprocess that does not return.                                 *)
(***************************************************************************)
\* C6: while the subprocess of a's worker (the fetch or the probe) has not
\* returned, the worker of every other repository of the batch that is not
\* itself inside a subprocess can take its next step (lock the mutex, write
\* its record, clear its flag), and the UI thread, when idle, can take a key
C6_StuckRepoFreezesNothing ==
  /\ \A a, b \in Configured :
       (Alive /\ a # b /\ wpc[a] \in {"fetch", "probe"})
         => /\ wpc[b] = "lock" => ENABLED WorkerLock(b)
            /\ wpc[b] = "store" => ENABLED WorkerStore(b)
            /\ wpc[b] = "delete" => ENABLED WorkerDelete(b)
  /\ (Looping /\ ui.pc = "idle" /\ events < MaxEvents) => ENABLED KeyTab

(***************************************************************************)
(* C7.  The UI thread and the workers.                                     *)
(***************************************************************************)
\* C7: whatever the workers and the mutex are doing, the UI thread inside a
\* handler or a render pass can take its next step, and the idle UI thread can
\* take a key: quit, Tab, refresh and, in the repositories view, a cursor move
C7_UINeverWaitsForWorker ==
  Looping =>
    /\ ui.pc # "idle" => ENABLED UIStep
    /\ (ui.pc = "idle" /\ events < MaxEvents)
         => /\ ENABLED KeyQuit /\ ENABLED KeyTab /\ ENABLED KeyRefresh
            /\ currentView = "repos"
                 => ENABLED KeyCursor(1) /\ ENABLED KeyCursor(-1)

\* the refresh handler is about to return while a worker holds the mutex
\* inside its probe
C7_Witness ==
  /\ Looping /\ ui.pc = "rest" /\ ui.h = "refresh"
  /\ \E r \in Configured : wpc[r] = "probe" /\ mu = r

(***************************************************************************)
(* C8.  spinnerTick.                                                       *)
(***************************************************************************)
\* a batch goroutine exists or is about to be started
RefreshOutstanding == bpc # "none"

\* C8: a pass of spinnerTick with no refresh outstanding changes neither
\* spinnerFrame nor the queue of redraws; with a refresh outstanding it adds one
\* to each; spinnerFrame never decreases while the process runs
C8_SpinnerFollowsRefresh ==
  [][/\ (spinnerTick /\ ~RefreshOutstanding)
          => UNCHANGED <<spinnerFrame, pending>>
     /\ (spinnerTick /\ RefreshOutstanding)
          => (spinnerFrame' = spinnerFrame + 1 /\ pending' = pending + 1)
     /\ Alive' => spinnerFrame' >= spinnerFrame]_vars

C10_ProbeFailureIsolated ==
  /\ \A r \in Configured :
       (Alive /\ events = 0 /\ wpc[r] = "done")
         => /\ r \notin fetchingRepos
            /\ Get(gitStatuses, r) = checkGitStatus(r, world[r])
            /\ ProbeFails(world[r])
                 => /\ gitStatuses[r].HasError
                    /\ gitStatuses[r].Error # ""
                    /\ gitStatuses[r].Files = <<>>
  /\ (Alive /\ bpc = "wait")
       => \A r \in Configured :
            /\ wpc[r] \in InFlight \cup {"done"}
            /\ wpc[r] \in InFlight <=> r \in fetchingRepos

\* the first repository's probe failed, the second's found two changed files,
\* and both workers have completed
C10_Witness ==
  /\ Alive /\ events = 0 /\ Len(repos) = 2
  /\ wpc[repos[1]] = "done" /\ wpc[repos[2]] = "done"
  /\ gitStatuses[repos[1]].HasError
  /\ ~gitStatuses[repos[2]].HasError /\ Len(gitStatuses[repos[2]].Files) = 2

(***************************************************************************)
(* C11.  A fetch that fails.                                               *)
(***************************************************************************)
\* C11: a fetch that fails changes nothing but the worker's position, which
\* moves on to the lock exactly as after a fetch that succeeds; the record the
\* worker computes next is the probe of the repository's state at that moment,
\* with HasError set exactly when the probe itself fails; and with no key
\* pressed and no working tree edited, a completed worker whose fetch failed
\* (the remote still holds commits that were not fetched) has cleared its flag
\* and has written the probe of the repository's state
C11_FailedFetchDiscarded ==
  [][\A r \in Repo :
       /\ WorkerFetchResult(r, FALSE)
            => (wpc'[r] = "lock"
                /\ UNCHANGED <<world, gitStatuses, fetchingRepos, wres>>)
       /\ WorkerFetchResult(r, TRUE) => wpc'[r] = "lock"
       /\ WorkerProbe(r)
            => (wres'[r] = checkGitStatus(r, world[r])
                /\ (wres'[r].HasError <=> ProbeFails(world[r])))
       /\ (Alive' /\ events' = 0 /\ wpc'[r] = "done" /\ world'[r].incoming > 0)
            => (r \notin fetchingRepos'
                /\ Get(gitStatuses', r) = checkGitStatus(r, world'[r]))]_vars

\* a worker is done whose fetch failed: the commit of the remote was not
\* fetched, and the record says what the probe says without it
C11_Witness ==
  /\ Alive /\ events = 0
  /\ \E r \in Configured :
       /\ wpc[r] = "done" /\ world[r].incoming = 1
       /\ r \notin fetchingRepos
       /\ ~gitStatuses[r].HasError
       /\ gitStatuses[r].RemoteStatus = "Up to date"

(***************************************************************************)
(* C12.  Starting a batch again.                                           *)
(***************************************************************************)
\* C12: whenever no batch is outstanding, the refresh handler starts one
C12_RefreshStartsBatch ==
  [][(UIRest /\ ui.h = "refresh" /\ bpc = "none") => bpc' = "lock"]_vars

(***************************************************************************)
(* C13.  The fields of the command.                                        *)
(***************************************************************************)
\* the fields of the template, $REPO replaced by the path in each of them
TokensWithPath(template, path) ==
  [i \in 1..Len(Fields(template)) |->
     ReplaceAll(Fields(template)[i], Placeholder, path)]

\* C13: once main has read the template, the command it makes consists of the
\* fields of the template with every $REPO replaced by the recorded path, the
\* first the executable and the rest its arguments: as many arguments as the
\* template has fields, less one, whatever the path; a template without a
\* field makes no command
C13_CommandIsTemplateTokens ==
  (launchLazyGit /\ running # "returned")
    => /\ cmd = TokensWithPath(commandTemplate, PathChars(lazyGitRepo))
       /\ Len(cmd) = Len(Fields(commandTemplate))
       /\ (Fields(commandTemplate) = <<>>) => (cmd = <<>> /\ running = "ended")

(***************************************************************************)
(* C14.  The command launched after the render loop.                       *)
(***************************************************************************)
\* MainLoop returns and the process was not aborted
LeavesLoop == running = "loop" /\ running' # "loop" /\ ~crashed'

\* C14, as stated: a command is launched if and only if the loop was left
\* through Enter with at least one repository configured
C14_LaunchIffEnter ==
  [][LeavesLoop => ((cmd' # <<>>) <=> (KeyEnter /\ Len(repos) >= 1))]_vars

\* C14, amended: a command is launched if and only if the loop was left through
\* Enter with at least one repository configured and the command template has
\* at least one field; Enter records the path selected at that moment, which is
\* the path the command gets for $REPO; nothing is launched later
C14_LaunchIffEnterAndTemplate ==
  [][/\ LeavesLoop
          => /\ (cmd' # <<>>)
                  <=> (KeyEnter /\ Len(repos) >= 1
                       /\ Fields(commandTemplate') # <<>>)
             /\ KeyEnter
                  => (launchLazyGit' /\ lazyGitRepo' = repos[selectedRepo + 1]
                      /\ cmd' = TokensWithPath(commandTemplate',
                                               PathChars(repos[selectedRepo + 1])))
             /\ KeyQuit => (~launchLazyGit' /\ cmd' = <<>>)
     /\ running # "loop" => cmd' = cmd]_vars

\* the second repository was selected when Enter was pressed, and the command
\* runs with its path
C14_Witness ==
  /\ running = "external" /\ ~crashed /\ launchLazyGit
  /\ Len(repos) = 2 /\ selectedRepo = 1 /\ lazyGitRepo = repos[2]
  /\ cmd = <<<<"g">>, <<"-", "p">>, PathChars(repos[2])>>

(***************************************************************************)
(* C15.  Adding a path that is configured already.                         *)
(***************************************************************************)
\* the absolute form of the path is in the list loadConfig returns
IsConfigured(fs, path) ==
  \E i \in 1..Len(loadConfig(fs).Repositories) :
     SamePath(loadConfig(fs).Repositories[i], Abs(path))

\* the entries of the list that are the path
Occurrences(list, path) ==
  Cardinality({i \in 1..Len(list) : SamePath(list[i], Abs(path))})

\* what the claim says of an invocation that changes nothing
DuplicateReported ==
  /\ files' = files
  /\ ~cli'.saved
  /\ cli'.config.Repositories = loadConfig(files).Repositories
  /\ cli'.out = "Repository already exists"
  /\ cli'.exit = 0

SuccessOutputs ==
  {"Added repository", "Repository already exists", "Removed repository",
   "Repository not found", "No repositories configured",
   "Configured repositories"}

FirstExisting(fs) == IF fs.local.kind # "absent" THEN fs.local ELSE fs.home

\* C17: what loadConfig returns is decided by the first of the two files that
\* exists: its list and its template when it is well-formed, the empty list
\* and "lazygit" when it is not, or when neither exists
C17_FirstExistingDecides ==
  [][cli'.runs # cli.runs
       => cli'.loaded =
            IF FirstExisting(files).kind = "ok"
              THEN [Repositories |-> FirstExisting(files).Repositories,
                    EnterCommandBinary |->
                      IF FirstExisting(files).hasCommand
                        THEN FirstExisting(files).EnterCommandBinary
                        ELSE DefaultCommand]
              ELSE DefaultConfig]_vars

(***************************************************************************)
(* C18.  Tab.                                                              *)
(***************************************************************************)
\* the position of a pane in the order repositories, files, diff
PaneIndex(f) ==
  IF f = "focusRepo" THEN 0 ELSE IF f = "focusFile" THEN 1 ELSE 2

PaneView(k) == <<"repos", "files", "diff">>[k + 1]

\* C18: every Tab moves the focus from the pane the Tab before it selected
\* (the repositories pane at first) to the next one in the order repositories,
\* files, diff, repositories, so that k Tabs lead to pane k mod 3
C18_TabCycles ==
  [][KeyTab => /\ PaneIndex(focused') = (PaneIndex(focused) + 1) % 3
               /\ currentView' = PaneView(PaneIndex(focused'))]_vars


(***************************************************************************)
(* C19.  The changed files of a porcelain output.                          *)
(***************************************************************************)
\* the status characters without their spaces
StatusOf(line) == SelectSeq(line.xy, LAMBDA c : c # " ")

\* the reported path without the pair of double quotes around it
PathOf(line) ==
  IF Len(line.path) >= 2 /\ Head(line.path) = "\""
       /\ line.path[Len(line.path)] = "\""
    THEN SubSeq(line.path, 2, Len(line.path) - 1)
    ELSE line.path

\* one entry per reported line, in the order of the report
EntriesOf(report) ==
  [i \in 1..Len(report) |->
     [Path |-> PathOf(report[i]), Status |-> StatusOf(report[i])]]

\* NewApp has stored the record of the probed repository
Probed == running = "constructed" /\ AllRepos[1] \in DOMAIN gitStatuses

\* C19: for every porcelain output made of lines "XY path", the record
\* checkGitStatus returns holds exactly one entry per line, in the order of the
\* output, its status XY without the spaces and its path the reported path
\* without its pair of double quotes, and no error; an empty output gives an
\* empty list
C19_OneEntryPerLine ==
  Probed =>
    \A report \in PorcelainReports :
      (world[AllRepos[1]].statusOut = Rendered(report)) =>
        /\ gitStatuses[AllRepos[1]].Files = EntriesOf(report)
        /\ ~gitStatuses[AllRepos[1]].HasError
        /\ gitStatuses[AllRepos[1]].IsRepo

\* " M a\n?? b\n" has been parsed to the entries M a and ?? b, in that order
C19_Witness ==
  /\ Probed
  /\ world[AllRepos[1]].statusOut
       = <<" ", "M", " ", "a", "\n", "?", "?", " ", "b", "\n">>
  /\ gitStatuses[AllRepos[1]].Files
       = <<[Path |-> <<"a">>, Status |-> <<"M">>],
           [Path |-> <<"b">>, Status |-> <<"?", "?">>]>>

(***************************************************************************)
(* C20.  A repository without a remote.                                    *)
(***************************************************************************)
\* the RemoteStatus texts of the probed repositories in which `git remote`
\* names a remote
OtherRemoteTexts ==
  {checkGitStatus(AllRepos[1], w).RemoteStatus :
     w \in {v \in ProbeWorlds : v.remotes # "none"}}

\* C20: the record of a repository without a remote has HasRemote and
\* NeedsPull false and a RemoteStatus that is not empty and is the text of no
\* other remote state
C20_NoRemoteDescribed ==
  (Probed /\ world[AllRepos[1]].remotes = "none") =>
    /\ ~gitStatuses[AllRepos[1]].HasRemote
    /\ ~gitStatuses[AllRepos[1]].NeedsPull
    /\ gitStatuses[AllRepos[1]].RemoteStatus # ""
    /\ gitStatuses[AllRepos[1]].RemoteStatus \notin OtherRemoteTexts


(***************************************************************************)
(* C21.  The behind count.                                                 *)
(***************************************************************************)
\* the external state of the probed repository
ProbedWorld == world[AllRepos[1]]

\* the record NewApp stored for it
ProbedRecord == gitStatuses[AllRepos[1]]

\* `git rev-list --count` has answered for the upstream of the current branch
HasUpstream ==
  /\ ProbedWorld.branch = "some" /\ ProbedWorld.upstream = "some"
  /\ ~ProbedWorld.behindErr

\* the description of a branch that is n commits behind
CountText(n) ==
  CASE n = 1 -> "1 commits behind"
    [] n = 2 -> "2 commits behind"
    [] n = 3 -> "3 commits behind"
    [] n = 4 -> "4 commits behind"
    [] OTHER -> "?"

\* the record of the comparison with an upstream that is n commits ahead
ComparedWith(n) ==
  /\ ProbedRecord.HasRemote
  /\ ProbedRecord.NeedsPull <=> (n # 0)
  /\ (n # 0) => ProbedRecord.RemoteStatus = CountText(n)
  /\ (n = 0) => ProbedRecord.RemoteStatus = "Up to date"

\* C21 as stated: for a repository whose current branch has an upstream, the
\* record has HasRemote true, NeedsPull true and "<n> commits behind" exactly
\* when the count n is not 0, NeedsPull false and "Up to date" when it is 0
C21_BehindCount ==
  (Probed /\ HasUpstream) => ComparedWith(ProbedWorld.behind)

\* C21, amended: the same for a repository that has a remote configured and
\* whose current branch has an upstream
C21_BehindCountWithRemote ==
  (Probed /\ ProbedWorld.remotes = "some" /\ HasUpstream)
    => ComparedWith(ProbedWorld.behind)

\* a branch three commits behind its upstream has been probed
C21_Witness ==
  /\ Probed /\ ProbedWorld.remotes = "some" /\ HasUpstream
  /\ ProbedWorld.behind = 3
  /\ ProbedRecord.NeedsPull
  /\ ProbedRecord.RemoteStatus = "3 commits behind"


(***************************************************************************)
(* C22.  The outcomes of the remote comparison that are not a count.       *)
(***************************************************************************)
\* which of the outcomes the answers w of the git commands amount to
RemoteOutcome(w) ==
  IF w.remotes = "none" THEN "no remotes"
  ELSE IF w.remotes = "fail" THEN "command failed"
  ELSE IF w.branch = "fail" THEN "command failed"
  ELSE IF w.branch = "none" THEN "no branch"
  ELSE IF w.upstream = "fail" THEN "no upstream"
  ELSE IF w.behindErr THEN "command failed"
  ELSE "compared"

\* the three fields of a record the remote comparison sets
RemoteFields(status) ==
  <<status.HasRemote, status.NeedsPull, status.RemoteStatus>>

\* the line updateRepoView writes for the record once its fetch is over
RenderedRow(status) == RepoRow(AllRepos[1], status, FALSE, TRUE)

\* C22: the record of a repository without remotes, of one without an upstream
\* and of one for which a comparison command failed differs in (HasRemote,
\* NeedsPull, RemoteStatus), and in the line rendered for it, from the record
\* of every repository in another of these three outcomes, and HasError is not
\* set in it
C22_OutcomesDistinct ==
  (Probed /\ RemoteOutcome(ProbedWorld)
               \in {"no remotes", "no upstream", "command failed"}) =>
    /\ ~ProbedRecord.HasError
    /\ \A w \in ProbeWorlds :
         (/\ RemoteOutcome(w) \in {"no remotes", "no upstream", "command failed"}
          /\ RemoteOutcome(w) # RemoteOutcome(ProbedWorld)
          /\ w.statusOut = ProbedWorld.statusOut) =>
           /\ RemoteFields(checkGitStatus(AllRepos[1], w))
                # RemoteFields(ProbedRecord)
           /\ RenderedRow(checkGitStatus(AllRepos[1], w))
                # RenderedRow(ProbedRecord)


(***************************************************************************)
(* C23.  A configured path that is not under version control.              *)
(***************************************************************************)
\* the configured paths without a .git
NotVersioned == {r \in Configured : ~world[r].isRepo}

\* a record of a failed probe: an error with its message and no file
ErrorRecord(status) ==
  status.HasError /\ status.Error # "" /\ status.Files = <<>>

\* every record of such a path is an error record, in the map and in the hands
\* of its worker
NotVersionedHasError ==
  Alive =>
    \A r \in NotVersioned :
      /\ r \in DOMAIN gitStatuses /\ ErrorRecord(gitStatuses[r])
      /\ (wpc[r] \in {"store", "delete"}) => ErrorRecord(wres[r])

\* when the handlers have run and such a path is selected, the file pane holds
\* the error message, no file entry, and the diff pane holds nothing
NotVersionedRendered ==
  (/\ Looping /\ ui.pc = "idle" /\ currentView # "none"
   /\ selectedRepo < Len(repos) /\ SelectedPath \in NotVersioned) =>
    /\ Len(fileView) = 1
    /\ fileView[1].kind = "error"
    /\ fileView[1].text = gitStatuses[SelectedPath].Error
    /\ diffView = <<>>

\* a step that stores the record of r: its worker's, or updateGitStatuses'
StoresRecordOf(r) ==
  /\ Alive'
  /\ \/ wpc[r] = "store" /\ wpc'[r] = "delete"
     \/ ui.pc = "rf_store" /\ repos[ui.i] = r /\ ui' # ui

\* storing the record of such a path leaves every other record as it was
NotVersionedAlone ==
  \A r \in NotVersioned :
    StoresRecordOf(r) =>
      \A q \in Repo \ {r} : Get(gitStatuses', q) = Get(gitStatuses, q)

\* C23: the probe of a configured path that is not under version control
\* yields HasError with a non-empty message and no files, the file pane shows
\* that message and the diff pane nothing, and the other repositories' records
\* are not touched
C23_NotVersioned ==
  /\ [](NotVersionedHasError /\ NotVersionedRendered)
  /\ [][NotVersionedAlone]_vars

\* the batch is over, the selected path is not under version control and is
\* shown as an error beside a repository whose two changes are recorded
C23_Witness ==
  /\ Looping /\ ui.pc = "idle" /\ ~isFetching
  /\ Len(repos) = 2 /\ selectedRepo = 0
  /\ SelectedPath \in NotVersioned
  /\ Len(fileView) = 1 /\ fileView[1].kind = "error"
  /\ fileView[1].text = "Not a git repository"
  /\ diffView = <<>>
  /\ ~gitStatuses[AllRepos[2]].HasError
  /\ Len(gitStatuses[AllRepos[2]].Files) = 2


(***************************************************************************)
(* C24.  Rechecking twice.                                                 *)
(***************************************************************************)
\* a step in which updateGitStatuses has run again over stored records
RecheckStep == running = "constructed" /\ events' = events + 1

UIAtSharedState == Looping /\ (UIAtStatusMap \/ UIAtFetchingMap)

\* a worker is inside its critical section (lines 281-284)
WorkerInCriticalSection == \E r \in Repo : mu = r

\* C25: every access to gitStatuses, fetchingRepos, isFetching and spinnerFrame
\* is made under a.mu, so the UI thread is never at such an access while a
\* worker is inside its critical section
C25_UIAccessExcludesWorker == ~(UIAtSharedState /\ WorkerInCriticalSection)

(***************************************************************************)
(* C26.  The record of a repository that is being refreshed.               *)
(***************************************************************************)
\* the step in which r's worker completes its assignment of line 282
WorkerCompletes(r) == wpc[r] = "store" /\ wpc'[r] = "delete"

\* C26: while a repository is marked refreshing its record is changed by the
\* completion step of its worker and by no other step, the recheck of the 'r'
\* key included
C26_OnlyWorkerWritesRefreshing ==
  [][\A r \in fetchingRepos :
       (Alive' /\ Get(gitStatuses', r) # Get(gitStatuses, r))
         => WorkerCompletes(r)]_vars

(***************************************************************************)
(* C27.  Workers and each other's subprocesses.                            *)
(***************************************************************************)
\* r's worker is inside checkGitStatus: a git subprocess of its runs
WorkerInProbe(r) == Alive /\ wpc[r] = "probe"

\* r's worker is inside fetchRemoteUpdates: git fetch runs
WorkerInFetch(r) == Alive /\ wpc[r] = "fetch"

\* q's worker is at a.mu.Lock() and the mutex is held
WorkerBlocked(q) == Alive /\ wpc[q] = "lock" /\ mu # "free"

\* C27: no worker holds a.mu while a subprocess of its runs, and no worker is
\* kept waiting at a.mu by a worker that is inside a subprocess call
C27_NoWorkerWaitsForSubprocess ==
  \A r \in Repo :
    /\ (WorkerInProbe(r) \/ WorkerInFetch(r)) => mu # r
    /\ \A q \in Repo \ {r} : ~(WorkerBlocked(q) /\ mu = r /\ WorkerInProbe(r))

(***************************************************************************)
(* C28.  Subprocesses and the UI thread.                                   *)
(***************************************************************************)
\* the UI thread is inside checkGitStatus (refresh, updateGitStatuses)
UIInSubprocess == Looping /\ ui.pc = "rf_probe"

\* C28: the thread that renders and takes the input never executes a blocking
\* subprocess call
C28_NoSubprocessOnUIThread == ~UIInSubprocess

(***************************************************************************)
(* C29.  The start of a batch.                                             *)
(***************************************************************************)
\* r's worker exists and has not finished
WorkerRunning(r) == wpc[r] \in {"fetch", "lock", "probe", "store", "delete"}

\* a step that starts a worker
StartsWorker == \E r \in Repo : ~WorkerRunning(r) /\ WorkerRunning(r)'

\* when the workers of a batch are started every configured repository is
\* marked, and the workers started are one for each configured path, all of
\* them at their fetch
SpawnsOnePerMarkedPath ==
  StartsWorker =>
    /\ Configured \subseteq fetchingRepos
    /\ \A r \in Repo : ~WorkerRunning(r)
    /\ \A r \in Repo : (wpc'[r] = "fetch") <=> (r \in Configured)

\* a worker that has not cleared its flag is the worker of a marked repository
RunningIsMarked ==
  Alive => \A r \in Repo :
             (wpc[r] \in {"fetch", "lock", "probe", "store"}) =>
               r \in fetchingRepos

\* C29: every repository of a batch is marked refreshing before a worker of
\* the batch starts, one worker is started for each configured path, and the
\* workers run side by side
C29_MarkedThenOnePerPath ==
  /\ []RunningIsMarked
  /\ [][SpawnsOnePerMarkedPath]_vars

\* the workers of both configured repositories are inside their fetch at once
C29_Witness ==
  /\ Alive /\ Len(repos) = 2
  /\ \A r \in Configured : wpc[r] = "fetch" /\ r \in fetchingRepos

(***************************************************************************)
(* C30.  The progress clock once the render loop has returned.             *)
(***************************************************************************)
\* MainLoop has returned
LoopExited == running # "loop"

\* C30: once MainLoop has returned, spinnerTick increments spinnerFrame no
\* more and queues no further redraw, a batch being outstanding or not
C30_ClockStopsWithLoop ==
  [][LoopExited => (~(spinnerFrame' > spinnerFrame) /\ ~(pending' > pending))]_vars


(***************************************************************************)
(* C32.  One batch at a time.                                              *)
(***************************************************************************)
\* a batch is in flight: its goroutine or one of its workers exists
BatchInFlight == bpc # "none" \/ \E r \in Repo : WorkerRunning(r)

\* refresh is at its test of a.isFetching (line 611)
RefreshAtTest == Looping /\ ui.pc = "rest" /\ ui.h = "refresh"

\* while a batch is in flight or a flag is set, isFetching is set
FetchingWhileInFlight ==
  Alive => ((BatchInFlight \/ fetchingRepos # {}) => isFetching)

\* refresh with isFetching set leaves the batch goroutine and the workers as
\* they are; with isFetching clear it starts a batch, none being in flight
RefreshStartsAtMostOne ==
  (RefreshAtTest /\ ui'.pc = "idle" /\ Alive') =>
    IF isFetching
      THEN bpc' = bpc /\ wpc' = wpc /\ fetchingRepos' = fetchingRepos
      ELSE ~BatchInFlight /\ bpc' = "lock" /\ wpc' = wpc

\* a step that starts workers finds none running
NoSecondWorker ==
  \A r \in Repo :
    (wpc'[r] = "fetch" /\ wpc[r] # "fetch") => ~\E q \in Repo : WorkerRunning(q)

\* C32: at most one batch is in flight: a refresh requested while isFetching
\* is set starts none, no repository has two workers, and isFetching is set
\* whenever fetchingRepos is not empty
C32_OneBatchAtATime ==
  /\ []FetchingWhileInFlight
  /\ [][RefreshStartsAtMostOne /\ NoSecondWorker]_vars

\* refresh has reached its test while the workers of a batch are fetching
C32_Witness ==
  /\ RefreshAtTest /\ isFetching
  /\ \E r \in Repo : wpc[r] = "fetch" /\ r \in fetchingRepos


(***************************************************************************)
(* C33.  The stored flag isFetching.                                       *)
(***************************************************************************)
\* C33: isFetching is set only while a batch runs or is about to be started:
\* when the render loop runs and neither a batch goroutine nor a worker
\* exists, isFetching is clear, the configuration being empty or not
C33_FetchingOnlyWithBatch ==
  (Looping /\ ui.pc = "idle" /\ ~BatchInFlight) => ~isFetching


(***************************************************************************)
(* C34.  The display after a batch.                                        *)
(***************************************************************************)
\* a batch of a non-empty configuration has completed and none has followed
BatchOver == Looping /\ repos # <<>> /\ bpc = "none" /\ ~isFetching

\* the repositories view and the help view hold a render of the final state:
\* no 'Updating' mark, no 'Fetching remote updates' line, and in every row the
\* record that is stored
FinalRendered ==
  /\ helpView = [fetching |-> FALSE]
  /\ Len(repoView) = Len(repos)
  /\ \A i \in 1..Len(repos) :
       /\ ~repoView[i].updating
       /\ repoView[i] = RepoRow(repos[i], Get(gitStatuses, repos[i]), FALSE,
                                i - 1 = selectedRepo)

\* C34: after a batch has completed the views are eventually drawn from the
\* final state, no key being pressed: no row is marked 'Updating', the
\* 'Fetching remote updates' line is gone, every row shows the stored record
C34_FinalStateRendered == BatchOver ~> (FinalRendered \/ ~Looping)


(***************************************************************************)
(* C35.  The selection indices.                                            *)
(***************************************************************************)
\* the changed files of the selected repository, as stored
SelectedFiles == Get(gitStatuses, SelectedPath).Files

\* C35: while the loop runs, selectedRepo is an index of the configured list
\* when that list is not empty, and selectedFile is an index of the selected
\* repository's list of changed files when that list is not empty
C35_SelectionValid ==
  (Looping /\ repos # <<>>) =>
    /\ selectedRepo \in 0..(Len(repos) - 1)
    /\ (SelectedFiles # <<>>) => selectedFile \in 0..(Len(SelectedFiles) - 1)

(***************************************************************************)
(* C36.  The keys of the registry.                                         *)
(***************************************************************************)
\* the keys of a.gitStatuses and of a.fetchingRepos are configured paths
KeysConfigured ==
  /\ DOMAIN gitStatuses \subseteq Configured
  /\ fetchingRepos \subseteq Configured

\* from NewApp's updateGitStatuses on, every configured path has a record
EveryConfiguredHasRecord == Looping => Configured \subseteq DOMAIN gitStatuses

\* no step of the dashboard changes config.Repositories
ConfigurationKept == repos' = repos

\* C36: gitStatuses and fetchingRepos hold configured paths only, no step
\* changes the configured list, and while the loop runs every configured
\* repository has a gitStatuses entry
C36_KeysFixedByConfiguration ==
  /\ [](KeysConfigured /\ EveryConfiguredHasRecord)
  /\ [][ConfigurationKept]_vars

\* a batch over two repositories has run to its end, and MaxEvents keys or
\* outside edits have been handled
C36_Witness ==
  /\ Looping /\ Len(repos) = 2 /\ bpc = "none" /\ ~isFetching
  /\ ui.pc = "idle" /\ events = MaxEvents /\ currentView # "none"
  /\ fetchingRepos = {} /\ DOMAIN gitStatuses = Configured

(***************************************************************************)
(* C37.  The shape of a record.                                            *)
(***************************************************************************)
\* what holds of the record the probe of path r made in external state w
RecordShape(r, w, status) ==
  /\ status.NeedsPull => status.HasRemote
  /\ status.HasError =>
       status.Files = <<>> /\ ~status.HasRemote /\ ~status.NeedsPull
  /\ ~isGitRepository(w) => ~status.IsRepo /\ status.HasError
  /\ status.Path = r

\* C37: in every record the probe has stored NeedsPull implies HasRemote;
\* HasError implies no files, HasRemote false and NeedsPull false; the record
\* of a path that is not a git repository has IsRepo false and HasError true;
\* and Path is the path probed
C37_RecordShape ==
  \A r \in DOMAIN gitStatuses : RecordShape(r, world[r], gitStatuses[r])

\* the record of a directory without .git in which git reports changed files,
\* a remote and commits to pull has been stored and stored again
C37_Witness ==
  /\ running = "constructed" /\ events > 0
  /\ \E r \in DOMAIN gitStatuses :
       /\ ~world[r].isRepo /\ world[r].remotes = "some" /\ world[r].behind > 0
       /\ world[r].statusOut # <<>>
       /\ gitStatuses[r].HasError

(***************************************************************************)
(* C38.  Adding to and removing from the list of repositories.             *)
(***************************************************************************)
\* an entry of the list is the path, as absolute paths
Present(list, path) == \E i \in 1..Len(list) : Abs(list[i]) = Abs(path)

\* new is old without its entry at position i, the others in their order
Without(old, i, new) ==
  /\ Len(new) = Len(old) - 1
  /\ \A k \in 1..Len(new) : new[k] = IF k < i THEN old[k] ELSE old[k + 1]

\* add returns true and appends the absolute path when no entry is the path,
\* and returns false and changes nothing otherwise
AddAppendsIfAbsent ==
  \A path \in ListPaths :
    ListAdd(path) =>
      LET old == cli.config.Repositories
          new == cli'.config.Repositories
      IN  /\ cli'.returned = ~Present(old, path)
          /\ new = IF Present(old, path) THEN old ELSE Append(old, Abs(path))

\* remove returns true and deletes the one entry that is the path, and returns
\* false and changes nothing when there is none
RemoveDeletesTheEntry ==
  \A path \in ListPaths :
    ListRemove(path) =>
      LET old == cli.config.Repositories
          new == cli'.config.Repositories
      IN  /\ cli'.returned = Present(old, path)
          /\ IF Present(old, path)
               THEN \E i \in 1..Len(old) :
                      Abs(old[i]) = Abs(path) /\ Without(old, i, new)
               ELSE new = old

\* removing the path the call before has added gives the list of before
AddThenRemoveRestores ==
  \A path \in ListPaths :
    (/\ cli.flag = "add" /\ cli.returned /\ Abs(cli.arg) = Abs(path)
     /\ ListRemove(path))
      => cli'.config = cli.loaded

\* C38: from a list without duplicates, calls of addRepositoryWithPath and
\* removeRepository leave a list without duplicates (as absolute paths); add
\* appends at the end and returns true iff the path was absent; remove deletes
\* the matching entry, keeps the order of the others and returns true iff the
\* path was present; adding an absent path and removing it gives the list of
\* before
C38_ListOperations ==
  /\ []NoDuplicates(cli.config.Repositories)
  /\ [][AddAppendsIfAbsent /\ RemoveDeletesTheEntry
           /\ AddThenRemoveRestores]_vars

\* "/r/b" was added to a list of two and "/r/a", written another way, removed
\* from its head
C38_Witness ==
  /\ cli.runs = 2 /\ cli.flag = "remove" /\ cli.returned
  /\ cli.arg = PathARelative
  /\ cli.loaded.Repositories = <<PathASlash, PathX, PathB>>
  /\ cli.config.Repositories = <<PathX, PathB>>

(***************************************************************************)
(* C31.  The message-driven dashboard: a fetch that does not return.       *)
(***************************************************************************)
\* C31: in the program of src/git.go, whether or not the fetch of StuckRepo
\* ever returns, every other repository that is marked as fetching has its
\* repoFetchCompleteMsg handled and its flag cleared, unless the program ends
C31_OthersComplete ==
  \A r \in Repo \ {StuckRepo} :
    (MsgLoop /\ r \in fetchingRepos) ~> (r \notin fetchingRepos \/ ~MsgLoop)

(***************************************************************************)
(* C39.  The message-driven dashboard: what the handlers change.           *)
(***************************************************************************)
\* the event loop handles the repoFetchCompleteMsg of r in this step
HandlesFetchComplete(r) ==
  MsgLoop /\ MsgLoop' /\ wpc[r] = "sent" /\ wpc'[r] # "sent"

\* the handler removes the flag of r alone and replaces the record of r alone
FrameOfFetchComplete ==
  \A r \in Repo :
    HandlesFetchComplete(r) =>
      /\ r \in fetchingRepos
      /\ fetchingRepos' = fetchingRepos \ {r}
      /\ DOMAIN gitStatuses' = DOMAIN gitStatuses \cup {r}
      /\ gitStatuses'[r] = checkGitStatus(r, world[r])
      /\ \A q \in DOMAIN gitStatuses \ {r} : gitStatuses'[q] = gitStatuses[q]

\* isFetching turns false in the step that empties fetchingRepos, and in no
\* other
ClearedWithLastFlag ==
  (isFetching /\ ~isFetching') <=> (fetchingRepos # {} /\ fetchingRepos' = {})

\* 'f' while isFetching holds changes no flag and no record and starts no
\* command
FetchKeyIgnoredWhileFetching ==
  (isFetching /\ MsgKeyFetch) =>
    UNCHANGED <<fetchingRepos, gitStatuses, isFetching, bpc, bi, wpc, world>>

\* C39: in the program of src/git.go, handling repoFetchCompleteMsg of r
\* removes r alone from fetchingRepos and replaces gitStatuses[r] alone;
\* isFetching becomes false in exactly the step that empties fetchingRepos;
\* and 'f' while isFetching is true changes neither map and starts no fetch
C39_HandlerFrames ==
  [][FrameOfFetchComplete /\ ClearedWithLastFlag
       /\ FetchKeyIgnoredWhileFetching]_vars

\* the message of the first of two repositories has been handled: its record
\* is the one of after the fetch and its flag is gone, the second one's flag
\* is set, and MaxEvents keys or outside edits have come in meanwhile
C39_Witness ==
  /\ MsgLoop /\ Len(repos) = 2 /\ events = MaxEvents
  /\ isFetching /\ fetchingRepos = {repos[2]}
  /\ wpc[repos[2]] = "fetch"
  /\ gitStatuses[repos[1]].RemoteStatus = "1 commits behind"

====
